---------------------------- MODULE Spec2Model ----------------------------
(***************************************************************************)
(* A model of the pysc2 observation/action converter                       *)
(* (pysc2/env/converter/cc): the raw action codec (RawActionsEncoder),     *)
(* the raw converter's episode state (RawConverter), the top-level         *)
(* Converter, the raw unit encoder (RawUnitsFullVec) and the visual        *)
(* converter's ConvertAction.                                              *)
(*                                                                         *)
(* World coordinates are floats in the code.  Here a world coordinate is   *)
(* an integer number of 1/Den(R) world units, Den(R) = 2 * R for raw       *)
(* resolution R: every point AgentCoordsToWorldCoords produces is a whole  *)
(* number of such units, and the arithmetic is exact.                      *)
(***************************************************************************)
EXTENDS Integers, Sequences, FiniteSets, TLC

VARIABLES
    settings_,              \* ConverterSettings and EnvironmentInfo of the instance
    current_observation_,   \* RawConverter::current_observation_
    last_unit_tags_,        \* RawConverter::last_unit_tags_
    last_target_unit_tag_,  \* RawConverter::last_target_unit_tag_
    raw_camera_,            \* RawConverter::raw_camera_ (NoCamera until seeded)
    away_race_observed_,    \* Converter::away_race_observed_
    call                    \* the most recent call: its arguments and what it returned

vars == <<settings_, current_observation_, last_unit_tags_,
          last_target_unit_tag_, raw_camera_, away_race_observed_, call>>

----------------------------------------------------------------------------
(* Generic helpers *)

Max(a, b) == IF a >= b THEN a ELSE b

Min(a, b) == IF a <= b THEN a ELSE b

\* C++ integer division and float-to-int conversion truncate toward zero.
TruncDiv(a, b) == IF a >= 0 THEN a \div b ELSE -((-a) \div b)

\* C++ remainder has the sign of the dividend.
TruncMod(a, b) == a - b * TruncDiv(a, b)

Range(s) == {s[i] : i \in DOMAIN s}

RECURSIVE SeqOfSet(_)
\* The elements of a finite set of integers in ascending order.
SeqOfSet(S) ==
    IF S = {} THEN <<>>
    ELSE LET m == CHOOSE x \in S : \A y \in S : x <= y
         IN <<m>> \o SeqOfSet(S \ {m})

----------------------------------------------------------------------------
(* The raw function table, RawFunctions() of game_data/raw_actions.h (the  *)
(* list itself is defined in game_data/raw_actions.cc).  An excerpt with   *)
(* the shapes the codec distinguishes: one no-op, general functions that   *)
(* share an ability id across the point and unit types, specialised        *)
(* functions that name their general ability, one camera move and one      *)
(* autocast function.                                                      *)

RawFunctions == <<
    [label |-> "no_op",                   type |-> "NO_OP",           ability_id |-> 0,  general_id |-> 0],
    [label |-> "Smart_pt",                type |-> "RAW_CMD_PT",      ability_id |-> 1,  general_id |-> 0],
    [label |-> "Attack_pt",               type |-> "RAW_CMD_PT",      ability_id |-> 74, general_id |-> 0],
    [label |-> "Attack_unit",             type |-> "RAW_CMD_UNIT",    ability_id |-> 74, general_id |-> 0],
    [label |-> "Attack_Attack_pt",        type |-> "RAW_CMD_PT",      ability_id |-> 23, general_id |-> 74],
    [label |-> "Attack_Attack_unit",      type |-> "RAW_CMD_UNIT",    ability_id |-> 23, general_id |-> 74],
    [label |-> "HoldPosition_quick",      type |-> "RAW_CMD",         ability_id |-> 93, general_id |-> 0],
    [label |-> "HoldPosition_Hold_quick", type |-> "RAW_CMD",         ability_id |-> 18, general_id |-> 93],
    [label |-> "raw_move_camera",         type |-> "RAW_MOVE_CAMERA", ability_id |-> 0,  general_id |-> 0],
    [label |-> "Build_Interceptors_autocast", type |-> "RAW_AUTOCAST", ability_id |-> 42, general_id |-> 0],
    [label |-> "Smart_unit",              type |-> "RAW_CMD_UNIT",    ability_id |-> 1,  general_id |-> 0],
    [label |-> "Train_Zealot_quick",      type |-> "RAW_CMD",         ability_id |-> 16, general_id |-> 0]
>>

\* RawFunctions().size(); function indices are 0-based in the code.
NumRawFunctions == Len(RawFunctions)

RawFunction(i) == RawFunctions[i + 1]

----------------------------------------------------------------------------
(* raw_actions_encoder.cc *)

\* World units per unit of length at resolution r.
Den(r) == 2 * r

Resolution(s) == s.raw_resolution

MaxDim(s) == Max(s.map_size.x, s.map_size.y)

\* A lookup that takes every value for a unit tag.
FindOriginalTag_Literal(position, units) == position

FindOriginalTag(position, units) ==
    IF position >= Len(units) THEN position      \* assume it's a real unit tag
    ELSE units[position + 1].tag                 \* assume it's an index

RECURSIVE LookupSelectedUnitTags(_, _, _)
LookupSelectedUnitTags(units, indices, max_possible_index) ==
    IF indices = <<>> THEN <<>>
    ELSE LET index == Head(indices)
         IN IF index = max_possible_index
              THEN LookupSelectedUnitTags(units, Tail(indices), max_possible_index)
            ELSE IF index < 0 THEN <<>>
            ELSE <<FindOriginalTag(index, units)>>
                   \o LookupSelectedUnitTags(units, Tail(indices), max_possible_index)

\* The first function at or after index `from` whose ability id is ability_id
\* and that either redirects to its general ability or has the wanted type;
\* NumRawFunctions when there is none.
RECURSIVE FindFunctionScan(_, _, _, _)
FindFunctionScan(ability_id, type, map_to_general, from) ==
    IF from >= NumRawFunctions THEN NumRawFunctions
    ELSE LET f == RawFunction(from)
         IN IF f.ability_id = ability_id
               /\ ((map_to_general /\ f.general_id # 0) \/ f.type = type)
              THEN from
            ELSE FindFunctionScan(ability_id, type, map_to_general, from + 1)

FindFunctionExact(ability_id, type) ==
    LET i == FindFunctionScan(ability_id, type, FALSE, 0)
    IN IF i < NumRawFunctions THEN i ELSE 0

FindFunction(ability_id, type) ==
    LET i == FindFunctionScan(ability_id, type, TRUE, 0)
    IN IF i >= NumRawFunctions THEN 0
       ELSE IF RawFunction(i).general_id # 0
              THEN FindFunctionExact(RawFunction(i).general_id, type)
       ELSE i

\* The indices, ascending, of the observed units whose tag is selected.
FindSelectionIndices(units, tags) ==
    SeqOfSet({i \in 0 .. Len(units) - 1 : units[i + 1].tag \in Range(tags)})

MakeFunctionCall(s, function_id, world, queued, unit_tags, target_unit_tag, repeat) ==
    LET tensor == [i \in 1 .. s.max_selection_size |->
                      IF i <= Len(unit_tags) THEN unit_tags[i]
                      ELSE IF function_id = 0 THEN 0 ELSE s.max_unit_count]
        base == [function |-> function_id, world |-> world, queued |-> queued,
                 unit_tags |-> tensor, target_unit_tag |-> target_unit_tag]
    IN IF s.action_repeat
         THEN [function |-> function_id, world |-> world, queued |-> queued,
               unit_tags |-> tensor, target_unit_tag |-> target_unit_tag,
               repeat |-> repeat]
       ELSE base

AgentCoordsToWorldCoords(s, target_pos) ==
    LET r == Resolution(s)
        x2 == 2 * TruncMod(target_pos, r) + 1     \* twice (target_pos % r + 0.5)
        y2 == 2 * TruncDiv(target_pos, r) + 1     \* twice (target_pos / r + 0.5)
    IN \* x / scale and map_size.y - y / scale with scale = r / max_dim
       [x |-> x2 * MaxDim(s),
        y |-> s.map_size.y * Den(r) - y2 * MaxDim(s)]

WorldCoordsToAgentCoords(s, position) ==
    LET r == Resolution(s)
        x == TruncDiv(r * position.x, MaxDim(s) * Den(r))
        y == TruncDiv(r * (s.map_size.y * Den(r) - Max(r, position.y)),
                      MaxDim(s) * Den(r))     \* Max(r, .) is max(0.5f, .): 0.5 = r / Den(r)
    IN r * y + x

\* The actions of a RequestAction, by the field of Action / ActionRaw that is set.
UnitCommand(ability_id, unit_tags, queue_command) ==
    [kind |-> "unit_command", ability_id |-> ability_id, unit_tags |-> unit_tags,
     queue_command |-> queue_command,
     has_target_unit_tag |-> FALSE, target_unit_tag |-> 0,
     has_target_world_space_pos |-> FALSE, target_world_space_pos |-> [x |-> 0, y |-> 0]]

CameraMove(p) == [kind |-> "camera_move", center_world_space |-> p]

ToggleAutocast(ability_id, unit_tags) ==
    [kind |-> "toggle_autocast", ability_id |-> ability_id, unit_tags |-> unit_tags]

\* action.action_raw().unit_command().ability_id(): 0 when the field is unset.
UnitCommandAbilityId(a) == IF a.kind = "unit_command" THEN a.ability_id ELSE 0

\* Results of RawActionsEncoder::Encode and of the converters' calls.
Ok(actions) == [status |-> "ok", actions |-> actions]

InvalidArgument == [status |-> "error", actions |-> <<>>]

\* A failed CHECK or an out-of-bounds access: the process does not return.
Aborted == [status |-> "abort", actions |-> <<>>]

Has(action, key) == key \in DOMAIN action

\* ToVector: the tensor's array, element by element (a vector tensor is a
\* sequence in this model).
ToVector(t) == [i \in 1 .. Len(t) |-> t[i]]

Repeated(a, n) == [i \in 1 .. Max(n, 0) |-> a]

\* An encoder that repeats every kind of command.
EncodeCommand_RepeatAll(s, units, action, f, selected_tags) ==
    LET command == UnitCommand(f.ability_id, selected_tags, action.queued # 0)
        num_actions == IF s.action_repeat THEN action.repeat + 1 ELSE 1
    IN IF f.type = "RAW_CMD_PT" /\ ~Has(action, "world") THEN InvalidArgument
       ELSE IF f.type = "RAW_CMD_UNIT" /\ ~Has(action, "target_unit_tag")
              THEN InvalidArgument
       ELSE IF f.type = "RAW_CMD_UNIT" /\ action.target_unit_tag < 0 THEN Ok(<<>>)
       ELSE IF s.action_repeat /\ ~Has(action, "repeat") THEN InvalidArgument
       ELSE Ok(Repeated(
              CASE f.type = "RAW_CMD_PT" ->
                     [command EXCEPT !.has_target_world_space_pos = TRUE,
                                     !.target_world_space_pos =
                                         AgentCoordsToWorldCoords(s, action.world)]
                [] f.type = "RAW_CMD_UNIT" ->
                     [command EXCEPT !.has_target_unit_tag = TRUE,
                                     !.target_unit_tag =
                                         FindOriginalTag(action.target_unit_tag, units)]
                [] OTHER -> command,
              num_actions))

EncodeCommand(s, units, action, f, selected_tags) ==
    LET command == UnitCommand(f.ability_id, selected_tags, action.queued # 0)
        num_actions == IF f.type # "RAW_CMD" THEN 1
                       ELSE IF s.action_repeat THEN action.repeat + 1 ELSE 1
    IN IF f.type = "RAW_CMD_PT" /\ ~Has(action, "world") THEN InvalidArgument
       ELSE IF f.type = "RAW_CMD_UNIT" /\ ~Has(action, "target_unit_tag")
              THEN InvalidArgument
       ELSE IF f.type = "RAW_CMD_UNIT" /\ action.target_unit_tag < 0 THEN Ok(<<>>)
       ELSE IF s.action_repeat /\ ~Has(action, "repeat") THEN InvalidArgument
       ELSE Ok(Repeated(
              CASE f.type = "RAW_CMD_PT" ->
                     [command EXCEPT !.has_target_world_space_pos = TRUE,
                                     !.target_world_space_pos =
                                         AgentCoordsToWorldCoords(s, action.world)]
                [] f.type = "RAW_CMD_UNIT" ->
                     [command EXCEPT !.has_target_unit_tag = TRUE,
                                     !.target_unit_tag =
                                         FindOriginalTag(action.target_unit_tag, units)]
                [] OTHER -> command,
              num_actions))

\* RawActionsEncoder::Encode(observation, action); units are the raw units of
\* the observation.
Encode(s, units, action) ==
    IF ~Has(action, "function") THEN InvalidArgument
    ELSE IF action.function < 0 \/ action.function >= NumRawFunctions THEN Ok(<<>>)
    ELSE LET f == RawFunction(action.function)
         IN IF f.type = "NO_OP" THEN Ok(<<>>)
            ELSE IF f.type = "RAW_MOVE_CAMERA"
              THEN IF Has(action, "world")
                     THEN Ok(<<CameraMove(AgentCoordsToWorldCoords(s, action.world))>>)
                   ELSE InvalidArgument
            ELSE IF ~Has(action, "unit_tags") THEN InvalidArgument
            ELSE LET selected_tags ==
                         LookupSelectedUnitTags(units, ToVector(action.unit_tags),
                                                s.max_unit_count)
                 IN IF f.type = "RAW_AUTOCAST"
                      THEN Ok(<<ToggleAutocast(f.ability_id, selected_tags)>>)
                    ELSE IF ~Has(action, "queued") THEN InvalidArgument
                    ELSE EncodeCommand(s, units, action, f, selected_tags)

\* What Decode returns when one of its CHECKs fails: nothing, the process ends.
DecodeAborted == [aborted |-> TRUE]

\* The position of the first observed unit with this tag; Len(units) if none.
RECURSIVE TargetIndex(_, _, _)
TargetIndex(units, tag, i) ==
    IF i >= Len(units) THEN Len(units)
    ELSE IF units[i + 1].tag = tag THEN i
    ELSE TargetIndex(units, tag, i + 1)

\* The index of the first RAW_MOVE_CAMERA function; NumRawFunctions if none.
RECURSIVE MoveCameraFunction(_)
MoveCameraFunction(i) ==
    IF i >= NumRawFunctions THEN NumRawFunctions
    ELSE IF RawFunction(i).type = "RAW_MOVE_CAMERA" THEN i
    ELSE MoveCameraFunction(i + 1)

\* A count that ignores the other actions of the request.
NumActionsWithAbility_One(actions, a) == 1

\* The number of actions of the request with the same unit-command ability id.
NumActionsWithAbility(actions, a) ==
    IF a.kind = "unit_command"
      THEN Cardinality({i \in DOMAIN actions :
                           UnitCommandAbilityId(actions[i]) = a.ability_id})
    ELSE 1

\* One iteration of Decode's loop over the request's actions, for the raw
\* action a: "skip" (continue), "abort" (a CHECK fails) or the returned call.
DecodeOne(s, units, actions, a) ==
    LET type == IF a.kind # "unit_command" THEN "RAW_AUTOCAST"
                ELSE IF a.has_target_unit_tag THEN "RAW_CMD_UNIT"
                ELSE IF a.has_target_world_space_pos THEN "RAW_CMD_PT"
                ELSE "RAW_CMD"
        function_idx ==
            CASE a.kind = "unit_command" -> FindFunction(a.ability_id, type)
              [] a.kind = "camera_move" -> MoveCameraFunction(0)
              [] a.kind = "toggle_autocast" -> FindFunction(a.ability_id, "RAW_AUTOCAST")
              [] OTHER -> 0
        has_target == a.kind = "unit_command" /\ a.has_target_unit_tag
        target_unit_index ==
            IF has_target THEN TargetIndex(units, a.target_unit_tag, 0) ELSE 0
        world ==
            CASE a.kind = "unit_command" /\ a.has_target_world_space_pos ->
                   WorldCoordsToAgentCoords(s, a.target_world_space_pos)
              [] a.kind = "camera_move" ->
                   WorldCoordsToAgentCoords(s, a.center_world_space)
              [] OTHER -> 0
        found == IF a.kind \in {"unit_command", "toggle_autocast"}
                   THEN FindSelectionIndices(units, a.unit_tags) ELSE <<>>
        \* Remove non-addressable units from the selection.
        unit_indices == SelectSeq(found, LAMBDA i : i < s.max_unit_count)
        queued == IF a.kind = "unit_command" /\ a.queue_command THEN 1 ELSE 0
        num_actions == Min(NumActionsWithAbility(actions, a), 3)
    IN IF has_target /\ target_unit_index >= Len(units) THEN [tag |-> "skip"]
       ELSE IF a.kind = "camera_move" /\ ~(function_idx > 0) THEN [tag |-> "abort"]
       ELSE IF function_idx >= s.num_action_types THEN [tag |-> "skip"]
       ELSE IF a.kind # "camera_move" /\ unit_indices = <<>> THEN [tag |-> "skip"]
       ELSE IF a.kind # "camera_move" /\ target_unit_index >= s.max_unit_count
              THEN [tag |-> "skip"]
       ELSE IF ~(world >= 0 /\ world < Resolution(s) * Resolution(s))
              THEN [tag |-> "abort"]
       ELSE [tag |-> "return",
             call |-> MakeFunctionCall(s, function_idx, world, queued, unit_indices,
                                       target_unit_index, num_actions - 1)]

RECURSIVE DecodeFrom(_, _, _, _)
DecodeFrom(s, units, actions, i) ==
    IF i > Len(actions) THEN MakeFunctionCall(s, 0, 0, 0, <<>>, 0, 0)
    ELSE IF actions[i].kind \notin {"unit_command", "camera_move",
                                     "toggle_autocast", "raw_empty"}
      THEN DecodeFrom(s, units, actions, i + 1)      \* !action.has_action_raw()
    ELSE LET r == DecodeOne(s, units, actions, actions[i])
         IN CASE r.tag = "skip" -> DecodeFrom(s, units, actions, i + 1)
              [] r.tag = "abort" -> DecodeAborted
              [] OTHER -> r.call

\* RawActionsEncoder::Decode(observation, actions), shuffle_unit_tags off.
Decode(s, units, actions) == DecodeFrom(s, units, actions, 1)

----------------------------------------------------------------------------
(* Observation encoding: castops.h, map_util.cc, raw_camera.cc,            *)
(* general_order_ids.cc, game_data/uint8_lookup.cc and convert_obs.cc.     *)

Int32Min == -2147483647 - 1
Int32Max == 2147483647

\* ToInt32: truncation toward zero, INT32_MIN for a value out of range.
ToInt32(num, den) ==
    LET t == TruncDiv(num, den)
    IN IF t >= Int32Min /\ t <= Int32Max THEN t ELSE Int32Min

\* WorldToMinimapPx: floor of the scaled position, y measured from the top.
WorldToMinimapPx(point, map_size, r) ==
    LET max_dim == Max(map_size.x, map_size.y)
        y == map_size.y * Den(r) - point.y
        floor_x == (point.x * r) \div (max_dim * Den(r))
        floor_y == (y * r) \div (max_dim * Den(r))
    IN [x |-> ToInt32(floor_x, 1), y |-> ToInt32(floor_y, 1)]

WorldToMinimapDistance(distance, map_size, r) ==
    ToInt32(distance * r, Max(map_size.x, map_size.y) * Den(r))

\* RawCamera::RawCamera: a CHECK_GT on each half-extent.
RawCameraValid(left, right, top, bottom) ==
    left > 0 /\ right > 0 /\ top > 0 /\ bottom > 0

RawCamera(pos_x, pos_y, left, right, top, bottom) ==
    [exists |-> TRUE, pos_x_ |-> pos_x, pos_y_ |-> pos_y, left_ |-> left,
     right_ |-> right, top_ |-> top, bottom_ |-> bottom]

\* RawCamera::Move
Move(camera, x, y) == [camera EXCEPT !.pos_x_ = x, !.pos_y_ = y]

\* RawCamera::IsOnScreen: the bounds are inclusive.
IsOnScreen(camera, x, y) ==
    /\ camera.pos_x_ - camera.left_ <= x /\ x <= camera.pos_x_ + camera.right_
    /\ camera.pos_y_ - camera.top_ <= y /\ y <= camera.pos_y_ + camera.bottom_

\* AbilityIdToGameIdTable::Lookup: the least function index with this
\* ability id, 0 if there is none.
RawAbilityToGameId(ability_id) ==
    LET ids == {i \in 0 .. NumRawFunctions - 1 : RawFunction(i).ability_id = ability_id}
    IN IF ids = {} THEN 0 ELSE CHOOSE i \in ids : \A j \in ids : i <= j

\* OrderIdToGeneralLookup, first pass: the index of the general function of
\* (type, ability_id); the constructor CHECKs that there is only one.  The
\* map's operator[] yields 0 for a pair that was never entered.
GeneralToGeneralGameId(type, ability_id) ==
    LET ids == {i \in 0 .. NumRawFunctions - 1 :
                  /\ RawFunction(i).general_id = 0
                  /\ RawFunction(i).type = type
                  /\ RawFunction(i).ability_id = ability_id}
    IN IF ids = {} THEN 0 ELSE CHOOSE i \in ids : TRUE

\* OrderIdToGeneralLookup::Lookup
OrderIdToGeneral(game_id) ==
    IF game_id \notin 0 .. NumRawFunctions - 1 THEN 0
    ELSE LET f == RawFunction(game_id)
         IN GeneralToGeneralGameId(f.type,
                IF f.general_id = 0 THEN f.ability_id ELSE f.general_id)

GeneralOrderId(order_id, num_action_types) ==
    LET general_order_id == OrderIdToGeneral(order_id)
    IN IF general_order_id < num_action_types THEN general_order_id ELSE 0

\* SC2APIProtocol enums: Alliance, DisplayType, CloakState.
Self == 1
Enemy == 4
Visible == 1
Snapshot == 2
Hidden == 3
Cloaked == 1
NotCloaked == 3

\* SC2APIProtocol::Race
NoRace == 0
Terran == 1
Zerg == 2
Protoss == 3
Random == 4

\* convert_obs.cc: the unit type written over a masked enemy.
kMaskedUnitTypeId == 254

\* convert_obs.cc: the columns zeroed for a visible enemy off screen.
kUnitFeaturesToMask ==
    (2 .. 9) \cup {14, 16} \cup (19 .. 28) \cup (30 .. 34) \cup (36 .. 45)

\* An SC2APIProtocol::Unit with every field at its protobuf default.
DefaultUnit ==
    [tag |-> 0, unit_type |-> 0, alliance |-> 0, display_type |-> 0, owner |-> 0,
     cloak |-> 0, pos |-> [x |-> 0, y |-> 0], facing |-> 0, radius |-> 0,
     health |-> 0, health_max |-> 0, shield |-> 0, shield_max |-> 0,
     energy |-> 0, energy_max |-> 0, build_progress |-> 0,
     cargo_space_taken |-> 0, cargo_space_max |-> 0,
     is_selected |-> FALSE, is_blip |-> FALSE, is_powered |-> FALSE,
     is_hallucination |-> FALSE, is_active |-> FALSE, is_on_screen |-> FALSE,
     mineral_contents |-> 0, vespene_contents |-> 0,
     assigned_harvesters |-> 0, ideal_harvesters |-> 0, weapon_cooldown |-> 0,
     orders |-> <<>>, buff_ids |-> <<>>, has_add_on_tag |-> FALSE, add_on_tag |-> 0,
     buff_duration_remain |-> 0, buff_duration_max |-> 0,
     attack_upgrade_level |-> 0, armor_upgrade_level |-> 0,
     shield_upgrade_level |-> 0, passengers |-> <<>>]

Bool(b) == IF b THEN 1 ELSE 0

\* value / max * 255.0 when max > 0, else 0.
Ratio255(value, max) == IF max > 0 THEN ToInt32(value * 255, max) ELSE 0

\* tag_types: the unit type of the last unit with this tag, 0 if none.
AddOnType(units, tag) ==
    LET ids == {i \in DOMAIN units : units[i].tag = tag}
    IN IF ids = {} THEN 0
       ELSE units[CHOOSE i \in ids : \A j \in ids : j <= i].unit_type

OrderColumn(u, k, num_action_types) ==
    IF Len(u.orders) > k
      THEN GeneralOrderId(RawAbilityToGameId(u.orders[k + 1].ability_id),
                          num_action_types)
    ELSE 0

\* RawUnitsFullVec's on-screen test: the virtual camera if there is one, the
\* unit's own flag otherwise.
UnitOnScreen(p, u) ==
    IF p.camera.exists THEN IsOnScreen(p.camera, u.pos.x, u.pos.y)
    ELSE u.is_on_screen

\* Column j of a core unit's row before bookkeeping and masking; p holds
\* RawUnitsFullVec's arguments.  build_progress and an order's progress are
\* in hundredths.
UnitFeature(p, u, j) ==
    LET F == p.num_unit_features
        minimap == WorldToMinimapPx(u.pos, p.map_size, p.raw_resolution)
    IN CASE j = 0 -> u.unit_type
         [] j = 1 -> u.alliance
         [] j = 2 -> ToInt32(u.health, 1)
         [] j = 3 -> ToInt32(u.shield, 1)
         [] j = 4 -> ToInt32(u.energy, 1)
         [] j = 5 -> u.cargo_space_taken
         [] j = 6 -> ToInt32(u.build_progress * 100, 100)
         [] j = 7 -> Ratio255(u.health, u.health_max)
         [] j = 8 -> Ratio255(u.shield, u.shield_max)
         [] j = 9 -> Ratio255(u.energy, u.energy_max)
         [] j = 10 -> u.display_type
         [] j = 11 -> u.owner
         [] j = 12 -> minimap.x
         [] j = 13 -> minimap.y
         [] j = 14 -> ToInt32(u.facing, 1)
         [] j = 15 -> WorldToMinimapDistance(u.radius, p.map_size, p.raw_resolution)
         [] j = 16 -> u.cloak
         [] j = 17 -> Bool(u.is_selected)
         [] j = 18 -> Bool(u.is_blip)
         [] j = 19 -> Bool(u.is_powered)
         [] j = 20 -> u.mineral_contents
         [] j = 21 -> u.vespene_contents
         [] j = 22 -> u.cargo_space_max
         [] j = 23 -> u.assigned_harvesters
         [] j = 24 -> u.ideal_harvesters
         [] j = 25 -> ToInt32(u.weapon_cooldown, 1)
         [] j = 26 -> Len(u.orders)
         [] j = 27 -> OrderColumn(u, 0, p.num_action_types)
         [] j = 28 -> OrderColumn(u, 1, p.num_action_types)
         [] j = 29 -> IF p.is_raw THEN u.tag ELSE 0
         [] j = 30 /\ F > 33 -> Bool(u.is_hallucination)
         [] j = 31 /\ F > 33 -> IF Len(u.buff_ids) >= 1 THEN u.buff_ids[1] ELSE 0
         [] j = 32 /\ F > 33 -> IF Len(u.buff_ids) >= 2 THEN u.buff_ids[2] ELSE 0
         [] j = 33 /\ F > 33 ->
              IF u.has_add_on_tag THEN AddOnType(p.units, u.add_on_tag) ELSE 0
         [] j = 34 /\ F > 34 -> Bool(u.is_active)
         [] j = 35 /\ F > 35 -> Bool(UnitOnScreen(p, u))
         [] j = 36 /\ F > 39 /\ Len(u.orders) >= 1 -> ToInt32(u.orders[1].progress * 100, 100)
         [] j = 37 /\ F > 39 /\ Len(u.orders) >= 2 -> ToInt32(u.orders[2].progress * 100, 100)
         [] j = 38 /\ F > 39 -> OrderColumn(u, 2, p.num_action_types)
         [] j = 39 /\ F > 39 -> OrderColumn(u, 3, p.num_action_types)
         [] j = 41 /\ F > 45 -> u.buff_duration_remain
         [] j = 42 /\ F > 45 -> u.buff_duration_max
         [] j = 43 /\ F > 45 -> u.attack_upgrade_level
         [] j = 44 /\ F > 45 -> u.armor_upgrade_level
         [] j = 45 /\ F > 45 -> u.shield_upgrade_level
         [] OTHER -> 0

Columns(p) == 0 .. p.num_unit_features + 1

ZeroRow(p) == [j \in Columns(p) |-> 0]

\* A row whose was-targeted column is never set.
BookkeptRow_NoTarget(p, u) ==
    LET F == p.num_unit_features
    IN [j \in Columns(p) |->
          IF j = F THEN Bool(u.tag \in p.last_unit_tags)
          ELSE IF j = F + 1 THEN 0
          ELSE UnitFeature(p, u, j)]

\* The row after the feature columns and the two bookkeeping columns.
BookkeptRow(p, u) ==
    LET F == p.num_unit_features
    IN [j \in Columns(p) |->
          IF j = F THEN Bool(u.tag \in p.last_unit_tags)
          ELSE IF j = F + 1 THEN Bool(p.last_target_unit_tag = u.tag)
          ELSE UnitFeature(p, u, j)]

MaskEnemy(p, u) ==
    p.mask_offscreen_enemies /\ u.alliance = Enemy /\ ~UnitOnScreen(p, u)

\* if (mask_enemy && u.cloak() == Cloaked): every column zeroed, the tag
\* restored in raw mode.
CloakMaskedRow(p, u, row) ==
    IF MaskEnemy(p, u) /\ u.cloak = Cloaked
      THEN [j \in Columns(p) |-> IF j = 29 /\ p.is_raw THEN u.tag ELSE 0]
    ELSE row

\* A partial redaction that zeroes every column but the type.
VisibleMaskedRow_ZeroAll(p, u, row) ==
    IF MaskEnemy(p, u) /\ u.display_type = Visible
      THEN [j \in Columns(p) |-> IF j = 0 THEN kMaskedUnitTypeId ELSE 0]
    ELSE row

\* if (mask_enemy && u.display_type() == Visible): the type replaced, the
\* listed columns that exist zeroed.
VisibleMaskedRow(p, u, row) ==
    IF MaskEnemy(p, u) /\ u.display_type = Visible
      THEN [j \in Columns(p) |->
              IF j \in kUnitFeaturesToMask THEN 0
              ELSE IF j = 0 THEN kMaskedUnitTypeId
              ELSE row[j]]
    ELSE row

\* The row of the core unit u.
UnitRow(p, u) == VisibleMaskedRow(p, u, CloakMaskedRow(p, u, BookkeptRow(p, u)))

\* CHECK_LE(num_unit_features, 46), reached when a visible enemy is masked.
MaskCheckFails(p, u) ==
    MaskEnemy(p, u) /\ u.display_type = Visible /\ p.num_unit_features > 46

\* The row appended for the passenger c of the unit u.
CargoRow(p, u, c) ==
    LET minimap_pos == WorldToMinimapPx(u.pos, p.map_size, p.raw_resolution)
    IN [j \in Columns(p) |->
          CASE j = 0 -> c.unit_type
            [] j = 1 -> u.alliance
            [] j = 2 -> ToInt32(c.health, 1)
            [] j = 3 -> ToInt32(c.shield, 1)
            [] j = 4 -> ToInt32(c.energy, 1)
            [] j = 7 -> Ratio255(c.health, c.health_max)
            [] j = 8 -> Ratio255(c.shield, c.shield_max)
            [] j = 9 -> Ratio255(c.energy, c.energy_max)
            [] j = 11 -> u.owner
            [] j = 12 -> minimap_pos.x
            [] j = 13 -> minimap_pos.y
            [] j = 29 /\ p.is_raw -> c.tag
            [] j = 40 /\ 40 < p.num_unit_features + 2 -> 1
            [] OTHER -> 0]

\* The row appended for one position of the effect e.
EffectRow(p, e, pos) ==
    LET minimap_pos == WorldToMinimapPx(pos, p.map_size, p.raw_resolution)
    IN [j \in Columns(p) |->
          CASE j = 0 -> e.effect_id + p.num_unit_types
            [] j = 1 -> e.alliance
            [] j = 11 -> e.owner
            [] j = 12 -> minimap_pos.x
            [] j = 13 -> minimap_pos.y
            [] j = 15 -> ToInt32(e.radius, 1)
            [] OTHER -> 0]

RECURSIVE CargoRows(_, _, _)
\* The passenger rows of the units from position i on, in order.
CargoRows(p, units, i) ==
    IF i > Len(units) THEN <<>>
    ELSE [k \in 1 .. Len(units[i].passengers) |->
            CargoRow(p, units[i], units[i].passengers[k])]
         \o CargoRows(p, units, i + 1)

RECURSIVE EffectRows(_, _, _)
\* The rows of the effects from position i on, one for each position.
EffectRows(p, effects, i) ==
    IF i > Len(effects) THEN <<>>
    ELSE [k \in 1 .. Len(effects[i].pos) |->
            EffectRow(p, effects[i], effects[i].pos[k])]
         \o EffectRows(p, effects, i + 1)

\* RawUnitsFullVec: the first max_unit_count of the core rows, the cargo rows
\* and the effect rows, padded with zero rows; aborted if a CHECK fails.
RawUnitsFullVec(p) ==
    LET unit_count == Min(p.max_unit_count, Len(p.units))
        core == [i \in 1 .. unit_count |-> UnitRow(p, p.units[i])]
        cargo == IF p.add_cargo_to_units THEN CargoRows(p, p.units, 1) ELSE <<>>
        effects == IF p.add_effects_to_units THEN EffectRows(p, p.effects, 1) ELSE <<>>
        rows == core \o cargo \o effects
    IN [aborted |-> \E i \in 1 .. unit_count : MaskCheckFails(p, p.units[i]),
        m |-> [i \in 1 .. p.max_unit_count |->
                 IF i <= Len(rows) THEN rows[i] ELSE ZeroRow(p)]]

\* game_data/uint8_lookup.cc, kUnitsList: the first eight entries (Colossus,
\* TechLab, Reactor, InfestedTerran, BanelingCocoon, Baneling, Mothership,
\* PointDefenseDrone), KarakFemale, and InhibitorZoneMedium followed by
\* InhibitorZoneSmall as in the list, by their s2clientprotocol ids.
kUnitsList == <<4, 5, 6, 7, 8, 9, 10, 11, 324, 1969, 1968>>

\* RedundantUnits: Lyote and Dog map onto KarakFemale, InhibitorZoneMedium
\* onto InhibitorZoneSmall.
RedundantUnits == [data \in {322, 336, 1969} |-> IF data = 1969 THEN 1968 ELSE 324]

\* kBuffsList: BansheeCloak and BlindingCloud.
kBuffsList == <<7, 83>>

\* kUpgradesList: the first three entries (ResonatingGlaives, CloakingField,
\* HyperflightRotors) and the last six (ZergMissileWeaponsLevel3, 26, 292,
\* AnabolicSynthesis, LockOn, EnhancedShockwaves).
kUpgradesList == <<130, 20, 136, 61, 26, 292, 88, 144, 296>>

NoRedundantUnits == [data \in {} |-> 0]

\* LookUp: the redundancy pre-map, then the table of BuildTable.
Canonical(data, redundant_list) ==
    IF data \in DOMAIN redundant_list THEN redundant_list[data] ELSE data

\* CHECK(it != lookup_table->end())
LookUpFails(data, list, redundant_list) ==
    LET d == Canonical(data, redundant_list)
    IN d # 0 /\ d \notin Range(list)

\* BuildTable enters 0 -> 0 and list[i] -> i + 1; a later duplicate wins.
LookUp(data, list, redundant_list) ==
    LET d == Canonical(data, redundant_list)
        ids == {i \in DOMAIN list : list[i] = d}
    IN IF ids # {} THEN CHOOSE i \in ids : \A k \in ids : k <= i
       ELSE 0

PySc2ToUint8(data) == LookUp(data, kUnitsList, RedundantUnits)

PySc2ToUint8Buffs(data) == LookUp(data, kBuffsList, NoRedundantUnits)

PySc2ToUint8Upgrades(data) == LookUp(data, kUpgradesList, NoRedundantUnits)

\* Uint8ToPySc2: CHECK_GT(utype, 0), CHECK_LE(utype, kUnitsList.size())
Uint8ToPySc2Fails(utype) == utype <= 0 \/ utype > Len(kUnitsList)

Uint8ToPySc2(utype) == kUnitsList[utype]

\* Uint8ToPySc2Upgrades: the same two CHECKs against kUpgradesList.
Uint8ToPySc2UpgradesFails(upgrade_type) ==
    upgrade_type <= 0 \/ upgrade_type > Len(kUpgradesList)

Uint8ToPySc2Upgrades(upgrade_type) == kUpgradesList[upgrade_type]

\* RawUnitsToUint8: which rows have their type column converted.
ConvertsType(row, num_unit_features) ==
    \/ row[10] > 0 /\ row[0] # kMaskedUnitTypeId
    \/ num_unit_features > 40 /\ row[40] = 1

RowToUint8(row, num_unit_features) ==
    [j \in DOMAIN row |->
        IF j = 0 /\ ConvertsType(row, num_unit_features) THEN PySc2ToUint8(row[0])
        ELSE IF j \in {31, 32} /\ num_unit_features > 32
               THEN PySc2ToUint8Buffs(row[j])
        ELSE row[j]]

RowToUint8Fails(row, num_unit_features) ==
    \/ ConvertsType(row, num_unit_features)
         /\ LookUpFails(row[0], kUnitsList, RedundantUnits)
    \/ num_unit_features > 32
         /\ \E j \in {31, 32} : LookUpFails(row[j], kBuffsList, NoRedundantUnits)

\* RawUnitsToUint8(tensor, num_unit_features); tensor is RawUnitsFullVec's
\* result.
RawUnitsToUint8(tensor, num_unit_features) ==
    [aborted |-> \/ tensor.aborted
                 \/ \E i \in DOMAIN tensor.m :
                      RowToUint8Fails(tensor.m[i], num_unit_features),
     m |-> [i \in DOMAIN tensor.m |-> RowToUint8(tensor.m[i], num_unit_features)]]

----------------------------------------------------------------------------
(* Bounds of the model *)

\* The most units an observation holds.
MaxUnits == 3

\* kMaxActionRepeat of raw_converter.cc: ActionSpec bounds repeat by it.
kMaxActionRepeat == 2

\* The largest repeat argument an agent passes.
MaxRepeatArg == 3

----------------------------------------------------------------------------
(* The codec on its own: an encoder, an observation and an agent call are  *)
(* drawn, the call is encoded and the encoded request decoded again, as    *)
(* RawActionsEncoderTest does.                                             *)

Size2DI(x, y) == [x |-> x, y |-> y]

EncoderSettings(map_size, r, muc, mss, nat, action_repeat) ==
    [map_size |-> map_size, raw_resolution |-> r,
     max_unit_count |-> muc, max_selection_size |-> mss,
     num_action_types |-> nat, action_repeat |-> action_repeat]

\* Encoders the constructor's CHECKs accept (positive sizes, square resolution).
CodecSettings ==
    {EncoderSettings(m, r, 3, 3, NumRawFunctions, FALSE) :
        m \in {Size2DI(1, 1), Size2DI(2, 2), Size2DI(3, 2), Size2DI(2, 3)},
        r \in {2, 3}}
    \cup
    {EncoderSettings(Size2DI(2, 2), 2, muc, mss, nat, rep) :
        muc \in {2, 3}, mss \in {2, 3}, nat \in {9, NumRawFunctions},
        rep \in BOOLEAN}

\* The tags of the units of an observation, in the order observed.
ObservedTags == <<7, 1, 5, 9>>

Unit(tag) == [tag |-> tag]

CodecObservations ==
    {[units |-> [i \in 1 .. n |-> Unit(ObservedTags[i])]] : n \in 0 .. MaxUnits}

\* Strictly ascending index lists.
Ascending(sel) == \A i \in 1 .. Len(sel) - 1 : sel[i] < sel[i + 1]

\* The unit_tags arguments an agent passes: index lists of up to three
\* entries, among them indices past the observed units and the
\* max_unit_count end marker.
Selections(s) ==
    LET idx == 0 .. MaxUnits
    IN {<<>>} \cup {<<a>> : a \in idx} \cup {<<a, b>> : a, b \in idx}
       \cup {sel \in {<<a, b, c>> : a, b, c \in idx} : Ascending(sel)}

FunctionsOfType(types) ==
    {f \in 0 .. NumRawFunctions - 1 : RawFunction(f).type \in types}

RepeatArgs(s) == IF s.action_repeat THEN 0 .. MaxRepeatArg ELSE {0}

\* The agent calls, as MakeFunctionCall builds them, by kind of function.
CodecCalls(s) ==
    LET worlds == 0 .. Resolution(s) * Resolution(s) - 1
    IN {MakeFunctionCall(s, 0, 0, 0, <<>>, 0, rep) : rep \in RepeatArgs(s)}
       \cup {MakeFunctionCall(s, f, w, 0, <<>>, 0, 0) :
                f \in FunctionsOfType({"RAW_MOVE_CAMERA"}), w \in worlds}
       \cup {MakeFunctionCall(s, f, w, q, sel, 0, 0) :
                f \in FunctionsOfType({"RAW_CMD_PT"}), w \in worlds,
                q \in {0, 1}, sel \in {<<>>, <<0>>, <<0, 1>>}}
       \cup {MakeFunctionCall(s, f, 0, q, sel, t, 0) :
                f \in FunctionsOfType({"RAW_CMD_UNIT"}), q \in {0, 1},
                sel \in Selections(s), t \in 0 .. MaxUnits}
       \cup {MakeFunctionCall(s, f, 0, 0, <<0>>, 0, rep) :
                f \in FunctionsOfType({"RAW_CMD_PT", "RAW_CMD_UNIT"}),
                rep \in RepeatArgs(s)}
       \cup {MakeFunctionCall(s, f, 0, q, sel, 0, rep) :
                f \in FunctionsOfType({"RAW_CMD"}), q \in {0, 1},
                sel \in Selections(s), rep \in RepeatArgs(s)}
       \cup {MakeFunctionCall(s, f, 0, 0, sel, 0, 0) :
                f \in FunctionsOfType({"RAW_AUTOCAST"}), sel \in Selections(s)}

NoCamera ==
    [exists |-> FALSE, pos_x_ |-> 0, pos_y_ |-> 0, left_ |-> 0, right_ |-> 0,
     top_ |-> 0, bottom_ |-> 0]

InitCodec ==
    /\ settings_ \in CodecSettings
    /\ current_observation_ \in CodecObservations
    /\ last_unit_tags_ = {}
    /\ last_target_unit_tag_ = -1
    /\ raw_camera_ = NoCamera
    /\ away_race_observed_ = Random
    /\ \E x \in CodecCalls(settings_) :
          call = [op |-> "MakeFunctionCall", action |-> x]

\* encoder.Encode(obs, call)
CodecEncode ==
    /\ call.op = "MakeFunctionCall"
    /\ call' = [op |-> "Encode", action |-> call.action,
                result |-> Encode(settings_, current_observation_.units, call.action)]
    /\ UNCHANGED <<settings_, current_observation_, last_unit_tags_,
                   last_target_unit_tag_, raw_camera_, away_race_observed_>>

\* encoder.Decode(obs, *encoded)
CodecDecode ==
    /\ call.op = "Encode"
    /\ call.result.status = "ok"
    /\ call' = [op |-> "Decode", action |-> call.action, result |-> call.result,
                decoded |-> Decode(settings_, current_observation_.units,
                                   call.result.actions)]
    /\ UNCHANGED <<settings_, current_observation_, last_unit_tags_,
                   last_target_unit_tag_, raw_camera_, away_race_observed_>>

NextCodec == CodecEncode \/ CodecDecode

SpecCodec == InitCodec /\ [][NextCodec]_vars

----------------------------------------------------------------------------
(* Decode on its own: an encoder and an observation are drawn, and         *)
(* requests of the game (a replay's or a bot's actions) are decoded.       *)

\* Encoders that hide the functions from the camera move on (8 action
\* types) or none, and address one unit or all.
DecodeSettings ==
    {EncoderSettings(Size2DI(2, 2), 2, muc, 3, nat, rep) :
        muc \in {1, MaxUnits}, nat \in {8, NumRawFunctions}, rep \in BOOLEAN}

\* An action of the request that is not a raw action (a UI action).
ActionUi == [kind |-> "action_ui"]

CommandToUnit(ability_id, unit_tags, target_unit_tag) ==
    [UnitCommand(ability_id, unit_tags, FALSE) EXCEPT
        !.has_target_unit_tag = TRUE, !.target_unit_tag = target_unit_tag]

CommandToPoint(ability_id, unit_tags, p) ==
    [UnitCommand(ability_id, unit_tags, TRUE) EXCEPT
        !.has_target_world_space_pos = TRUE, !.target_world_space_pos = p]

\* The actions a request is made of: commands to observed and to unobserved
\* targets, by units at the first and at later positions, of general,
\* specialised and unlisted abilities; camera moves inside the map, right of
\* it, on its right edge and above it (in units of 1 / Den(2) of the 2x2
\* map); an autocast toggle and a UI action.
RequestActions ==
    {CommandToUnit(74, <<ObservedTags[1]>>, ObservedTags[2]),
     CommandToUnit(74, <<ObservedTags[1]>>, ObservedTags[4]),
     CommandToUnit(1, <<ObservedTags[2]>>, ObservedTags[3]),
     CommandToPoint(74, <<ObservedTags[1], ObservedTags[2]>>, [x |-> 2, y |-> 6]),
     UnitCommand(93, <<ObservedTags[1]>>, FALSE),
     UnitCommand(93, <<ObservedTags[3]>>, FALSE),
     UnitCommand(99, <<ObservedTags[1]>>, FALSE),
     CommandToPoint(99, <<ObservedTags[2]>>, [x |-> 6, y |-> 2]),
     CameraMove([x |-> 2, y |-> 2]),
     CameraMove([x |-> 12, y |-> 2]),
     CameraMove([x |-> 8, y |-> 2]),
     CameraMove([x |-> 2, y |-> 12]),
     ToggleAutocast(42, <<ObservedTags[1]>>),
     ActionUi}

\* The longest request decoded.
MaxRequest == 2

RECURSIVE Requests(_)
\* The requests of up to n actions.
Requests(n) ==
    IF n = 0 THEN {<<>>}
    ELSE Requests(n - 1)
         \cup {Append(r, a) : r \in {q \in Requests(n - 1) : Len(q) = n - 1},
                              a \in RequestActions}

InitDecode ==
    /\ settings_ \in DecodeSettings
    /\ current_observation_ \in CodecObservations
    /\ last_unit_tags_ = {}
    /\ last_target_unit_tag_ = -1
    /\ raw_camera_ = NoCamera
    /\ away_race_observed_ = Random
    /\ call = [op |-> "RawActionsEncoder"]

\* encoder.Decode(obs, actions); Decode is const, so a later call finds the
\* encoder as the first one did.
DecodeRequest ==
    /\ call.op = "RawActionsEncoder"
    /\ \E actions \in Requests(MaxRequest) :
          call' = [op |-> "Decode", actions |-> actions,
                   decoded |-> Decode(settings_, current_observation_.units, actions)]
    /\ UNCHANGED <<settings_, current_observation_, last_unit_tags_,
                   last_target_unit_tag_, raw_camera_, away_race_observed_>>

\* The actions of a request that issues commands of one ability several
\* times in a step, as Encode does for a repeated command: a quick command,
\* a command to a unit and one to a point of the same ability, and an
\* autocast toggle.
RepeatedActions ==
    {UnitCommand(93, <<ObservedTags[1]>>, FALSE),
     CommandToUnit(74, <<ObservedTags[1]>>, ObservedTags[2]),
     CommandToPoint(74, <<ObservedTags[1]>>, [x |-> 2, y |-> 6]),
     ToggleAutocast(42, <<ObservedTags[1]>>)}

\* The longest request of repeated commands.
MaxRepeated == 4

RECURSIVE RepeatedRequests(_)
RepeatedRequests(n) ==
    IF n = 0 THEN {<<>>}
    ELSE RepeatedRequests(n - 1)
         \cup {Append(r, a) : r \in {q \in RepeatedRequests(n - 1) : Len(q) = n - 1},
                              a \in RepeatedActions}

\* encoder.Decode(obs, actions) for a request of repeated commands
DecodeRepeated ==
    /\ call.op = "RawActionsEncoder"
    /\ \E actions \in RepeatedRequests(MaxRepeated) :
          call' = [op |-> "Decode", actions |-> actions,
                   decoded |-> Decode(settings_, current_observation_.units, actions)]
    /\ UNCHANGED <<settings_, current_observation_, last_unit_tags_,
                   last_target_unit_tag_, raw_camera_, away_race_observed_>>

NextDecode == DecodeRequest \/ DecodeRepeated

SpecDecode == InitDecode /\ [][NextDecode]_vars
----------------------------------------------------------------------------
(* The unit matrix on its own: the arguments of RawUnitsFullVec are drawn, *)
(* the matrix is built and then converted by RawUnitsToUint8.              *)

\* The arguments of RawUnitsFullVec, from the settings s and the raw
\* observation raw.
RawUnitsArgs(s, raw, last_unit_tags, last_target_unit_tag, camera, is_raw) ==
    [last_unit_tags |-> last_unit_tags,
     last_target_unit_tag |-> last_target_unit_tag,
     units |-> raw.units, effects |-> raw.effects,
     max_unit_count |-> s.max_unit_count, is_raw |-> is_raw,
     map_size |-> s.map_size, raw_resolution |-> s.raw_resolution,
     num_unit_types |-> s.num_unit_types,
     num_unit_features |-> s.num_unit_features,
     mask_offscreen_enemies |-> s.mask_offscreen_enemies,
     num_action_types |-> s.num_action_types,
     add_effects_to_units |-> s.add_effects_to_units,
     add_cargo_to_units |-> s.add_cargo_to_units, camera |-> camera]

\* MakeConverter's least num_action_types and num_unit_types.
kMinActionTypes == 539
kMinUnitTypes == 217

\* The feature counts RawUnitsFullVec distinguishes, from MakeConverter's
\* least to the most the masked feature list covers.
FeatureCounts == {39, 40, 41, 46}

UnitsSettings ==
    [map_size : {Size2DI(4, 4)}, raw_resolution : {4},
     max_unit_count : {1, MaxUnits}, num_unit_types : {kMinUnitTypes},
     num_unit_features : FeatureCounts, mask_offscreen_enemies : BOOLEAN,
     num_action_types : {kMinActionTypes},
     add_effects_to_units : BOOLEAN, add_cargo_to_units : BOOLEAN]

\* World positions in units of 1 / Den(4): inside and outside the window of
\* the camera below.
OnScreenPos == [x |-> 16, y |-> 16]
OffScreenPos == [x |-> 28, y |-> 4]

\* A camera at the centre of the 4 x 4 map with half-extents of one world unit.
CentreCamera == RawCamera(16, 16, 8, 8, 8, 8)

\* A passenger of a transport.
Passenger(tag) ==
    [tag |-> tag, unit_type |-> 9, health |-> 30, health_max |-> 30,
     shield |-> 0, shield_max |-> 0, energy |-> 0, energy_max |-> 0]

\* A unit with a value in every field the matrix reads.
RichUnit(tag, alliance, display_type, cloak, pos) ==
    [DefaultUnit EXCEPT
       !.tag = tag, !.unit_type = 4, !.alliance = alliance,
       !.display_type = display_type, !.cloak = cloak, !.pos = pos,
       !.owner = IF alliance = Self THEN 1 ELSE 2,
       !.is_on_screen = (pos = OnScreenPos),
       !.facing = 3, !.radius = 16, !.health = 100, !.health_max = 200,
       !.shield = 50, !.shield_max = 50, !.energy = 10, !.energy_max = 40,
       !.build_progress = 100, !.cargo_space_taken = 2, !.cargo_space_max = 8,
       !.is_selected = TRUE, !.is_blip = TRUE, !.is_powered = TRUE,
       !.is_hallucination = TRUE, !.is_active = TRUE,
       !.mineral_contents = 5, !.vespene_contents = 6,
       !.assigned_harvesters = 1, !.ideal_harvesters = 2, !.weapon_cooldown = 4,
       !.orders = <<[ability_id |-> 23, progress |-> 50],
                    [ability_id |-> 18, progress |-> 25],
                    [ability_id |-> 16, progress |-> 0],
                    [ability_id |-> 74, progress |-> 0]>>,
       !.buff_ids = <<7, 83>>, !.has_add_on_tag = TRUE, !.add_on_tag = tag,
       !.buff_duration_remain = 9, !.buff_duration_max = 12,
       !.attack_upgrade_level = 1, !.armor_upgrade_level = 2,
       !.shield_upgrade_level = 3,
       !.passengers = IF alliance = Self THEN <<Passenger(1)>> ELSE <<>>]

RichUnits(tag) ==
    {RichUnit(tag, alliance, display_type, cloak, pos) :
        alliance \in {Self, Enemy}, display_type \in {Visible, Snapshot, Hidden},
        cloak \in {Cloaked, NotCloaked}, pos \in {OnScreenPos, OffScreenPos}}

\* An area effect with two positions.
Effect ==
    [effect_id |-> 1, alliance |-> Enemy, owner |-> 2, radius |-> 2,
     pos |-> <<OnScreenPos, OffScreenPos>>]

\* Raw observations: one unit of each kind, alone or before a transport.
UnitsObservations ==
    {[units |-> <<u>> \o rest, effects |-> <<Effect>>] :
        u \in RichUnits(ObservedTags[1]),
        rest \in {<<>>, <<RichUnit(ObservedTags[3], Self, Visible, NotCloaked,
                                   OffScreenPos)>>}}

InitUnits ==
    /\ settings_ \in UnitsSettings
    /\ current_observation_ \in UnitsObservations
    /\ last_unit_tags_ \in {{}, {ObservedTags[1]}}
    /\ last_target_unit_tag_ \in {-1, ObservedTags[1]}
    /\ raw_camera_ \in {NoCamera, CentreCamera}
    /\ away_race_observed_ = Random
    /\ \E is_raw \in BOOLEAN : call = [op |-> "Observation", is_raw |-> is_raw]

\* RawUnitsFullVec(last_unit_tags, last_target_unit_tag, raw, ...)
UnitsFullVec ==
    /\ call.op = "Observation"
    /\ call' = [op |-> "RawUnitsFullVec", is_raw |-> call.is_raw,
                tensor |-> RawUnitsFullVec(
                    RawUnitsArgs(settings_, current_observation_, last_unit_tags_,
                                 last_target_unit_tag_, raw_camera_, call.is_raw))]
    /\ UNCHANGED <<settings_, current_observation_, last_unit_tags_,
                   last_target_unit_tag_, raw_camera_, away_race_observed_>>

\* RawUnitsToUint8(tensor, num_unit_features)
UnitsToUint8 ==
    /\ call.op = "RawUnitsFullVec"
    /\ ~call.tensor.aborted
    /\ call' = [op |-> "RawUnitsToUint8", is_raw |-> call.is_raw,
                tensor |-> call.tensor,
                uint8 |-> RawUnitsToUint8(call.tensor, settings_.num_unit_features)]
    /\ UNCHANGED <<settings_, current_observation_, last_unit_tags_,
                   last_target_unit_tag_, raw_camera_, away_race_observed_>>

NextUnits == UnitsFullVec \/ UnitsToUint8

SpecUnits == InitUnits /\ [][NextUnits]_vars

----------------------------------------------------------------------------
(* The visual action table and VisualAction::Encode *)

\* An excerpt of VisualFunctions(): the twelve UI functions, whose action
\* ids are their FunctionType values, one general ability function of each
\* command shape, and specialised functions that name a general ability.
\* Action ids are contiguous from 0, as the VisualActions constructor checks.
VisualFunctions ==
    << [action_id |-> 0, type |-> "no_op", ability_id |-> 0, general_id |-> 0],
       [action_id |-> 1, type |-> "move_camera", ability_id |-> 0, general_id |-> 0],
       [action_id |-> 2, type |-> "select_point", ability_id |-> 0, general_id |-> 0],
       [action_id |-> 3, type |-> "select_rect", ability_id |-> 0, general_id |-> 0],
       [action_id |-> 4, type |-> "select_control_group", ability_id |-> 0,
        general_id |-> 0],
       [action_id |-> 5, type |-> "select_unit", ability_id |-> 0, general_id |-> 0],
       [action_id |-> 6, type |-> "select_idle_worker", ability_id |-> 0,
        general_id |-> 0],
       [action_id |-> 7, type |-> "select_army", ability_id |-> 0, general_id |-> 0],
       [action_id |-> 8, type |-> "select_warp_gates", ability_id |-> 0,
        general_id |-> 0],
       [action_id |-> 9, type |-> "select_larva", ability_id |-> 0, general_id |-> 0],
       [action_id |-> 10, type |-> "unload", ability_id |-> 0, general_id |-> 0],
       [action_id |-> 11, type |-> "build_queue", ability_id |-> 0, general_id |-> 0],
       [action_id |-> 12, type |-> "cmd_screen", ability_id |-> 74, general_id |-> 0],
       [action_id |-> 13, type |-> "cmd_minimap", ability_id |-> 74, general_id |-> 0],
       [action_id |-> 14, type |-> "cmd_quick", ability_id |-> 93, general_id |-> 0],
       [action_id |-> 15, type |-> "autocast", ability_id |-> 42, general_id |-> 0],
       [action_id |-> 16, type |-> "cmd_screen", ability_id |-> 23, general_id |-> 74],
       [action_id |-> 17, type |-> "cmd_quick", ability_id |-> 18, general_id |-> 93],
       [action_id |-> 18, type |-> "autocast", ability_id |-> 43, general_id |-> 42] >>

NumVisualFunctions == Len(VisualFunctions)

\* VisualActions::GetAction for an id inside the table: actions_[action_id].
GetAction(action_id) == VisualFunctions[action_id + 1]

ActionContext(s) ==
    [screen_width |-> s.screen.x, minimap_width |-> s.minimap.x,
     num_functions |-> s.num_action_types]

Val(tensor) == tensor

Option(arg) == Val(arg) + 1

MakePoint(arg, width) == [x |-> TruncMod(arg, width), y |-> TruncDiv(arg, width)]

\* The arguments a handler fetches with Arg(name, arguments, ctx).
ArgNames(type) ==
    CASE type = "move_camera" -> {"minimap"}
      [] type = "select_point" -> {"select_point_act", "screen"}
      [] type = "select_rect" -> {"select_add", "screen", "screen2"}
      [] type = "select_control_group" -> {"control_group_act", "control_group_id"}
      [] type = "select_unit" -> {"select_unit_act", "select_unit_id"}
      [] type = "select_idle_worker" -> {"select_worker"}
      [] type \in {"select_army", "select_warp_gates"} -> {"select_add"}
      [] type = "unload" -> {"unload_id"}
      [] type = "build_queue" -> {"build_queue_id"}
      [] type = "cmd_quick" -> {"queued"}
      [] type = "cmd_screen" -> {"queued", "screen"}
      [] type = "cmd_minimap" -> {"queued", "minimap"}
      [] OTHER -> {}

\* Arg's CHECK(arg != arguments.cend()) fails for one of the handler's names.
ArgCheckFails(type, arguments) == \E name \in ArgNames(type) : ~Has(arguments, name)

MoveCamera(arguments, action_context, ability_id) ==
    [kind |-> "feature_layer.camera_move",
     center_minimap |-> MakePoint(Val(arguments.minimap), action_context.minimap_width)]

SelectPoint(arguments, action_context, ability_id) ==
    [kind |-> "feature_layer.unit_selection_point",
     type |-> Option(arguments.select_point_act),
     selection_screen_coord |->
         MakePoint(Val(arguments.screen), action_context.screen_width)]

SelectRect(arguments, action_context, ability_id) ==
    LET s == MakePoint(Val(arguments.screen), action_context.screen_width)
        s2 == MakePoint(Val(arguments.screen2), action_context.screen_width)
    IN [kind |-> "feature_layer.unit_selection_rect",
        selection_add |-> Val(arguments.select_add) # 0,
        p0 |-> [x |-> Min(s.x, s2.x), y |-> Min(s.y, s2.y)],
        p1 |-> [x |-> Max(s.x, s2.x), y |-> Max(s.y, s2.y)]]

SelectIdleWorker(arguments, action_context, ability_id) ==
    [kind |-> "ui.select_idle_worker", type |-> Option(arguments.select_worker)]

SelectArmy(arguments, action_context, ability_id) ==
    [kind |-> "ui.select_army", selection_add |-> Val(arguments.select_add) # 0]

SelectWarpGates(arguments, action_context, ability_id) ==
    [kind |-> "ui.select_warp_gates", selection_add |-> Val(arguments.select_add) # 0]

SelectLarva(arguments, action_context, ability_id) == [kind |-> "ui.select_larva"]

SelectUnit(arguments, action_context, ability_id) ==
    [kind |-> "ui.multi_panel", type |-> Option(arguments.select_unit_act),
     unit_index |-> Val(arguments.select_unit_id)]

SelectControlGroup(arguments, action_context, ability_id) ==
    [kind |-> "ui.control_group", action |-> Option(arguments.control_group_act),
     control_group_index |-> Val(arguments.control_group_id)]

Unload(arguments, action_context, ability_id) ==
    [kind |-> "ui.cargo_panel", unit_index |-> Val(arguments.unload_id)]

BuildQueue(arguments, action_context, ability_id) ==
    [kind |-> "ui.production_panel", unit_index |-> Val(arguments.build_queue_id)]

CmdQuick(arguments, action_context, ability_id) ==
    [kind |-> "feature_layer.unit_command", ability_id |-> ability_id,
     queue_command |-> Val(arguments.queued) # 0]

CmdScreen(arguments, action_context, ability_id) ==
    [kind |-> "feature_layer.unit_command", ability_id |-> ability_id,
     queue_command |-> Val(arguments.queued) # 0,
     target_screen_coord |->
         MakePoint(Val(arguments.screen), action_context.screen_width)]

CmdMinimap(arguments, action_context, ability_id) ==
    [kind |-> "feature_layer.unit_command", ability_id |-> ability_id,
     queue_command |-> Val(arguments.queued) # 0,
     target_minimap_coord |->
         MakePoint(Val(arguments.minimap), action_context.minimap_width)]

Autocast(arguments, action_context, ability_id) ==
    [kind |-> "ui.toggle_autocast", ability_id |-> ability_id]

\* fn_map->find(action_type_)->second(args, action_context, ability_id_)
Handler(func, args, action_context) ==
    CASE func.type = "move_camera" -> MoveCamera(args, action_context, func.ability_id)
      [] func.type = "select_point" -> SelectPoint(args, action_context, func.ability_id)
      [] func.type = "select_rect" -> SelectRect(args, action_context, func.ability_id)
      [] func.type = "select_control_group" ->
           SelectControlGroup(args, action_context, func.ability_id)
      [] func.type = "select_unit" -> SelectUnit(args, action_context, func.ability_id)
      [] func.type = "select_idle_worker" ->
           SelectIdleWorker(args, action_context, func.ability_id)
      [] func.type = "select_army" -> SelectArmy(args, action_context, func.ability_id)
      [] func.type = "select_warp_gates" ->
           SelectWarpGates(args, action_context, func.ability_id)
      [] func.type = "select_larva" -> SelectLarva(args, action_context, func.ability_id)
      [] func.type = "unload" -> Unload(args, action_context, func.ability_id)
      [] func.type = "build_queue" -> BuildQueue(args, action_context, func.ability_id)
      [] func.type = "cmd_screen" -> CmdScreen(args, action_context, func.ability_id)
      [] func.type = "cmd_minimap" -> CmdMinimap(args, action_context, func.ability_id)
      [] func.type = "cmd_quick" -> CmdQuick(args, action_context, func.ability_id)
      [] func.type = "autocast" -> Autocast(args, action_context, func.ability_id)

\* VisualAction::Encode(args, action_context): the process ends at the
\* CHECK_NE for a no_op and at Arg's CHECK for an absent argument.
VisualActionEncode(func, args, action_context) ==
    IF func.type = "no_op" \/ ArgCheckFails(func.type, args) THEN Aborted
    ELSE Ok(<<Handler(func, args, action_context)>>)

\* VisualConverter::ConvertAction from the point where func is bound.
VisualConvertWith(s, action, func) ==
    IF func.type = "no_op" THEN Ok(<<>>)
    ELSE IF Cardinality(DOMAIN action) > 1
      THEN VisualActionEncode(func, action, ActionContext(s))
    ELSE Ok(<<>>)

\* VisualConverter::ConvertAction(action): the set of outcomes.  GetAction
\* indexes the table's vector unchecked, so for an id outside 0 .. N-1 the
\* call reads whatever lies beside the vector: the process ends, or the rest
\* of the call runs on a descriptor of any content.
VisualConvertAction(s, action) ==
    IF ~Has(action, "function") THEN {InvalidArgument}
    ELSE IF action.function < 0 \/ action.function >= NumVisualFunctions
      THEN {Aborted} \cup {VisualConvertWith(s, action, GetAction(g)) :
                              g \in 0 .. NumVisualFunctions - 1}
    ELSE {VisualConvertWith(s, action, GetAction(action.function))}

----------------------------------------------------------------------------
(* visual_actions.cc Decode and visual_converter.cc AvailableActions *)

\* The FunctionType value of a UI function type, which is also its action id.
FunctionTypeId(type) ==
    CHOOSE i \in 0 .. 11 : VisualFunctions[i + 1].type = type

\* VisualActions::HasAbility: ability_id_to_actions_ holds the ability.
HasAbility(ability_id) ==
    \E i \in DOMAIN VisualFunctions : VisualFunctions[i].ability_id = ability_id

\* GetActionsForAbility(ability_id) for an ability of the table: its
\* functions in the order of their action ids.
GetActionsForAbility(ability_id) ==
    SelectSeq(VisualFunctions, LAMBDA f : f.ability_id = ability_id)

PointTo1D(point, width) == point.y * width + point.x

\* MakeFunctionCall(action_id, args) of visual_actions.cc.
VisualFunctionCall(action_id, args) ==
    [k \in DOMAIN args \cup {"function"} |->
        IF k = "function" THEN action_id ELSE args[k]]

NoArgs == [k \in {} |-> 0]

VisualNoOp == VisualFunctionCall(FunctionTypeId("no_op"), NoArgs)

\* The arguments Ability hands to MakeFunctionCall for an action type.
AbilityArgs(action_type, queue, coord) ==
    CASE action_type = "cmd_screen" -> [queued |-> Bool(queue), screen |-> coord]
      [] action_type = "cmd_minimap" -> [queued |-> Bool(queue), minimap |-> coord]
      [] action_type = "cmd_quick" -> [queued |-> Bool(queue)]
      [] action_type = "autocast" -> NoArgs

\* Ability(ability_id, action_type, queue, coord): the call of the first
\* function of the general ability that has the action type; a no-op for an
\* unknown ability and when no function has the type.  GetAbilityActions
\* ends the process on a general id the table does not hold.
Ability(ability_id, action_type, queue, coord) ==
    IF ~HasAbility(ability_id) THEN VisualNoOp
    ELSE LET actions == GetActionsForAbility(ability_id)
             general_id == IF actions[1].general_id # 0
                             THEN actions[1].general_id ELSE ability_id
             general_actions == GetActionsForAbility(general_id)
             matching == {j \in DOMAIN general_actions :
                             general_actions[j].type = action_type}
         IN IF ~HasAbility(general_id) THEN DecodeAborted
            ELSE IF matching = {} THEN VisualNoOp
            ELSE VisualFunctionCall(
                     general_actions[CHOOSE j \in matching :
                                        \A k \in matching : j <= k].action_id,
                     AbilityArgs(action_type, queue, coord))

\* VisualAction::IsApplicable(requires_point)
IsApplicable(action, requires_point) ==
    IF requires_point THEN action.type \in {"cmd_screen", "cmd_minimap", "autocast"}
    ELSE action.type \in {"autocast", "cmd_quick"}

\* The call Decode makes for a feature-layer unit command.
DecodeUnitCommand(cmd, action_context) ==
    IF Has(cmd, "target_screen_coord")
      THEN Ability(cmd.ability_id, "cmd_screen", cmd.queue_command,
                   PointTo1D(cmd.target_screen_coord, action_context.screen_width))
    ELSE IF Has(cmd, "target_minimap_coord")
      THEN Ability(cmd.ability_id, "cmd_minimap", cmd.queue_command,
                   PointTo1D(cmd.target_minimap_coord, action_context.minimap_width))
    ELSE Ability(cmd.ability_id, "cmd_quick", cmd.queue_command, 0)

\* Decode(request_action, action_context) from the i-th action on: the first
\* UI or feature-layer action that yields a call; a unit command whose
\* function is not below num_functions is passed over.
RECURSIVE VisualDecodeFrom(_, _, _)
VisualDecodeFrom(actions, action_context, i) ==
    IF i > Len(actions) THEN VisualNoOp
    ELSE LET action == actions[i]
             kind == action.kind
             rest == VisualDecodeFrom(actions, action_context, i + 1)
         IN CASE kind = "ui.multi_panel" ->
                   VisualFunctionCall(FunctionTypeId("select_unit"),
                       [select_unit_act |-> action.type - 1,
                        select_unit_id |-> action.unit_index])
              [] kind = "ui.control_group" ->
                   VisualFunctionCall(FunctionTypeId("select_control_group"),
                       [control_group_act |-> action.action - 1,
                        control_group_id |-> action.control_group_index])
              [] kind = "ui.select_idle_worker" ->
                   VisualFunctionCall(FunctionTypeId("select_idle_worker"),
                       [select_worker |-> action.type - 1])
              [] kind = "ui.select_army" ->
                   VisualFunctionCall(FunctionTypeId("select_army"),
                       [select_add |-> Bool(action.selection_add)])
              [] kind = "ui.select_warp_gates" ->
                   VisualFunctionCall(FunctionTypeId("select_warp_gates"),
                       [select_add |-> Bool(action.selection_add)])
              [] kind = "ui.select_larva" ->
                   VisualFunctionCall(FunctionTypeId("select_larva"), NoArgs)
              [] kind = "ui.cargo_panel" ->
                   VisualFunctionCall(FunctionTypeId("unload"),
                       [unload_id |-> action.unit_index])
              [] kind = "ui.production_panel" ->
                   VisualFunctionCall(FunctionTypeId("build_queue"),
                       [build_queue_id |-> action.unit_index])
              [] kind = "ui.toggle_autocast" ->
                   Ability(action.ability_id, "autocast", FALSE, 0)
              [] kind = "feature_layer.camera_move" ->
                   VisualFunctionCall(FunctionTypeId("move_camera"),
                       [minimap |-> PointTo1D(action.center_minimap,
                                              action_context.minimap_width)])
              [] kind = "feature_layer.unit_selection_point" ->
                   VisualFunctionCall(FunctionTypeId("select_point"),
                       [screen |-> PointTo1D(action.selection_screen_coord,
                                             action_context.screen_width),
                        select_point_act |-> action.type - 1])
              [] kind = "feature_layer.unit_selection_rect" ->
                   VisualFunctionCall(FunctionTypeId("select_rect"),
                       [screen |-> PointTo1D(action.p0, action_context.screen_width),
                        screen2 |-> PointTo1D(action.p1, action_context.screen_width)])
              [] kind = "feature_layer.unit_command" ->
                   LET output == DecodeUnitCommand(action, action_context)
                   IN IF output = DecodeAborted THEN output
                      ELSE IF output.function >= action_context.num_functions
                        THEN rest
                      ELSE output
              [] OTHER -> rest

VisualDecode(actions, action_context) == VisualDecodeFrom(actions, action_context, 1)

\* The action ids AvailableActions collects for one available ability.
AbilityActionIds(available_ability) ==
    LET actions == GetActionsForAbility(available_ability.ability_id)
        applicable == {i \in DOMAIN actions :
                          IsApplicable(actions[i], available_ability.requires_point)}
        GeneralIds(action) ==
            LET general_actions == GetActionsForAbility(action.general_id)
                matching == {j \in DOMAIN general_actions :
                                general_actions[j].type = action.type}
            IN IF matching = {} THEN {}
               ELSE {general_actions[CHOOSE j \in matching :
                                        \A k \in matching : j <= k].action_id}
    IN UNION {IF actions[i].general_id = 0 THEN {actions[i].action_id}
              ELSE GeneralIds(actions[i]) : i \in applicable}

\* The UI functions AvailableActions switches on.
AvailableUi(obs) ==
    {"no_op", "move_camera", "select_point", "select_rect", "select_control_group"}
    \cup (IF obs.ui_data = "multi" THEN {"select_unit"} ELSE {})
    \cup (IF obs.player_common.idle_worker_count > 0 THEN {"select_idle_worker"} ELSE {})
    \cup (IF obs.player_common.army_count > 0 THEN {"select_army"} ELSE {})
    \cup (IF obs.player_common.warp_gate_count > 0 THEN {"select_warp_gates"} ELSE {})
    \cup (IF obs.player_common.larva_count > 0 THEN {"select_larva"} ELSE {})
    \cup (IF obs.ui_data = "cargo" THEN {"unload"} ELSE {})
    \cup (IF obs.ui_data = "production" THEN {"build_queue"} ELSE {})

\* AvailableActions(obs, num_action_types): the 0/1 vector, indexed from 1
\* here.  The process ends at GetAbilityActions' CHECK for an ability the
\* table does not hold and at CHECK(found_applicable).
AvailableActions(obs, num_action_types) ==
    IF \E i \in DOMAIN obs.abilities :
          \/ ~HasAbility(obs.abilities[i].ability_id)
          \/ AbilityActionIds(obs.abilities[i]) = {}
      THEN DecodeAborted
    ELSE LET ui == {FunctionTypeId(type) : type \in AvailableUi(obs)}
             available_actions ==
                 UNION {AbilityActionIds(obs.abilities[i]) : i \in DOMAIN obs.abilities}
         IN [id \in 1 .. num_action_types |->
                Bool(id - 1 \in ui \cup available_actions)]
----------------------------------------------------------------------------
(* RawConverter and Converter: the calls of one episode *)

\* unit_lookups.cc, UnitsToRace, for the unit types of kUnitsList: the race
\* enum each id belongs to.
UnitToRaceMap ==
    [unit_type \in Range(kUnitsList) |->
        CASE unit_type \in {4, 10} -> Protoss
          [] unit_type \in {5, 6, 11} -> Terran
          [] unit_type \in {7, 8, 9} -> Zerg
          [] OTHER -> NoRace]

\* UnitTypeToRace: CHECK(it != unit_to_race.end())
UnitTypeToRaceFails(unit_type) == unit_type \notin DOMAIN UnitToRaceMap

UnitTypeToRace(unit_type) == UnitToRaceMap[unit_type]

\* The position of the first enemy unit from position i on; 0 if none.
RECURSIVE FirstEnemy(_, _)
FirstEnemy(units, i) ==
    IF i > Len(units) THEN 0
    ELSE IF units[i].alliance = Enemy THEN i
    ELSE FirstEnemy(units, i + 1)

\* An AwayRaceObserved that follows the first enemy unit of every
\* observation.
AwayRaceObserved_Latest(observed, units) ==
    LET i == FirstEnemy(units, 1)
    IN IF i = 0 THEN [aborted |-> FALSE, race |-> observed]
       ELSE IF UnitTypeToRaceFails(units[i].unit_type)
              THEN [aborted |-> TRUE, race |-> observed]
       ELSE [aborted |-> FALSE, race |-> UnitTypeToRace(units[i].unit_type)]

\* Converter::AwayRaceObserved: the value of away_race_observed_ after the
\* call, which is also the tensor returned.
AwayRaceObserved(observed, units) ==
    LET i == FirstEnemy(units, 1)
    IN IF observed # Random \/ i = 0 THEN [aborted |-> FALSE, race |-> observed]
       ELSE IF UnitTypeToRaceFails(units[i].unit_type)
              THEN [aborted |-> TRUE, race |-> observed]
       ELSE [aborted |-> FALSE, race |-> UnitTypeToRace(units[i].unit_type)]

\* RawConverter::ConvertObservation, the seeding of the virtual camera.  A
\* float half-extent w is w * Den(r) here, so camera_width_world_units / 2
\* is camera_width_world_units * r.
SeedCamera(s, camera, obs) ==
    IF camera.exists \/ ~s.use_virtual_camera
      THEN [status |-> "ok", camera |-> camera]
    ELSE IF s.has_virtual_camera_dimensions
      THEN LET dims == s.virtual_camera_dimensions
           IN IF ~dims.has_left \/ ~dims.has_right \/ ~dims.has_top
                 \/ ~dims.has_bottom
                THEN [status |-> "error", camera |-> camera]
              ELSE IF ~RawCameraValid(dims.left, dims.right, dims.top, dims.bottom)
                THEN [status |-> "abort", camera |-> camera]
              ELSE [status |-> "ok",
                    camera |-> RawCamera(obs.camera.x, obs.camera.y, dims.left,
                                         dims.right, dims.top, dims.bottom)]
    ELSE LET width == s.camera_width_world_units * Resolution(s)
         IN IF ~RawCameraValid(width, width, width, width)
              THEN [status |-> "abort", camera |-> camera]
            ELSE [status |-> "ok",
                  camera |-> RawCamera(obs.camera.x, obs.camera.y, width, width,
                                       width, width)]

\* No action/* entries in the output.
NoAction == <<>>

\* RawConverter::ConvertObservation(observation), with use_camera_position
\* and camera off, given the outcome of the camera seeding (seeded), the
\* matrix of RawUnitsFullVec (tensor) and its conversion by RawUnitsToUint8
\* (uint8): the status, the camera after the call and the output's
\* raw_units and action/* entries.
RawConvertObservation(s, obs, seeded, tensor, uint8) ==
    LET action == Decode(s, obs.units, obs.force_action)
        Return(status, raw_units, labels) ==
            [status |-> status, camera |-> seeded.camera, raw_units |-> raw_units,
             action |-> labels]
    IN IF seeded.status # "ok" THEN Return(seeded.status, <<>>, NoAction)
       ELSE IF tensor.aborted THEN Return("abort", <<>>, NoAction)
       ELSE IF uint8.aborted THEN Return("abort", <<>>, NoAction)
       ELSE IF ~s.supervised THEN Return("ok", uint8.m, NoAction)
       ELSE IF ~obs.has_force_action_delay THEN Return("error", <<>>, NoAction)
       ELSE IF Has(action, "aborted") THEN Return("abort", <<>>, NoAction)
       ELSE IF action.function < 0 THEN Return("error", <<>>, NoAction)
       ELSE IF action.function >= s.num_action_types
              THEN Return("error", <<>>, NoAction)
       ELSE Return("ok", uint8.m, action)

\* Converter::ConvertObservation(observation) of a raw converter without
\* minimap or opponent features, given what RawConverter::ConvertObservation
\* returned (result): the status, the camera and the latched race after the
\* call, and the output's raw_units, away_race_observed and action/*
\* entries (the other entries are read off the observation and touch no
\* state).
ConverterConvertObservation(s, obs, result, race) ==
    LET away == AwayRaceObserved(race, obs.units)
        Return(status, r, output) ==
            [status |-> status, camera |-> result.camera, race |-> r,
             output |-> output]
        none == [raw_units |-> <<>>, away_race_observed |-> Random,
                 action |-> NoAction, delay |-> 0]
    IN IF result.status # "ok" THEN Return(result.status, race, none)
       ELSE IF obs.player_id \notin {1, 2} THEN Return("abort", race, none)
       ELSE IF away.aborted THEN Return("abort", race, none)
       ELSE IF s.supervised /\ ~obs.has_force_action_delay
              THEN Return("error", away.race, none)
       ELSE IF s.supervised /\ obs.force_action_delay = 0
              THEN Return("error", away.race, none)
       ELSE Return("ok", away.race,
                   [raw_units |-> result.raw_units,
                    away_race_observed |-> away.race, action |-> result.action,
                    delay |-> IF s.supervised THEN obs.force_action_delay ELSE 0])

\* A ConvertAction whose update of the episode state clears the selection
\* and the target when the request does not start with a unit command.
RawConvertAction_Clearing(s, units, action, last_unit_tags, last_target_unit_tag, camera) ==
    LET result == Encode(s, units, action)
        output == result.actions
        has_unit_command == Len(output) > 0 /\ output[1].kind = "unit_command"
        has_camera_move == Len(output) > 0 /\ output[1].kind = "camera_move"
    IN IF result.status # "ok"
         THEN [result |-> result, last_unit_tags |-> last_unit_tags,
               last_target_unit_tag |-> last_target_unit_tag, camera |-> camera]
       ELSE [result |-> result,
             last_unit_tags |->
                 IF has_unit_command THEN Range(output[1].unit_tags) ELSE {},
             last_target_unit_tag |->
                 IF has_unit_command /\ output[1].has_target_unit_tag
                   THEN output[1].target_unit_tag
                 ELSE -1,
             camera |->
                 IF camera.exists /\ has_camera_move
                   THEN Move(camera, output[1].center_world_space.x,
                             output[1].center_world_space.y)
                 ELSE camera]

\* RawConverter::ConvertAction(action): what Encode returned and the episode
\* state after the call.
RawConvertAction(s, units, action, last_unit_tags, last_target_unit_tag, camera) ==
    LET result == Encode(s, units, action)
        output == result.actions
        has_unit_command == Len(output) > 0 /\ output[1].kind = "unit_command"
        has_camera_move == Len(output) > 0 /\ output[1].kind = "camera_move"
    IN IF result.status # "ok"
         THEN [result |-> result, last_unit_tags |-> last_unit_tags,
               last_target_unit_tag |-> last_target_unit_tag, camera |-> camera]
       ELSE [result |-> result,
             last_unit_tags |->
                 IF has_unit_command THEN Range(output[1].unit_tags)
                 ELSE last_unit_tags,
             last_target_unit_tag |->
                 IF ~has_unit_command THEN last_target_unit_tag
                 ELSE IF output[1].has_target_unit_tag
                   THEN output[1].target_unit_tag
                 ELSE -1,
             camera |->
                 IF camera.exists /\ has_camera_move
                   THEN Move(camera, output[1].center_world_space.x,
                             output[1].center_world_space.y)
                 ELSE camera]

\* The sub-converter's ConvertAction: the possible outcomes.  The visual
\* converter keeps no episode state.
SubConvertAction(s, units, action, last_unit_tags, last_target_unit_tag, camera) ==
    IF s.mode = "raw"
      THEN {RawConvertAction(s, units, action, last_unit_tags,
                             last_target_unit_tag, camera)}
    ELSE {[result |-> r, last_unit_tags |-> last_unit_tags,
           last_target_unit_tag |-> last_target_unit_tag, camera |-> camera] :
             r \in VisualConvertAction(s, action)}

\* Converter::ConvertAction(action) after the sub-converter returned
\* converted_or: the status and the pysc2::Action returned.
ConverterConvertAction(action, converted_or) ==
    IF converted_or.status # "ok"
      THEN [status |-> converted_or.status, request_action |-> <<>>, delay |-> 0]
    ELSE IF ~Has(action, "delay")
      THEN [status |-> "error", request_action |-> <<>>, delay |-> 0]
    ELSE [status |-> "ok", request_action |-> converted_or.actions,
          delay |-> action.delay]
----------------------------------------------------------------------------
(* The converter: MakeConverter, then ConvertObservation and ConvertAction *)
(* in any order, as the environment loop and its callers drive them.       *)

\* MakeConverter's least max_unit_selection_size.
kMinSelectionSize == 16

\* The half-extent of the cameras below, in units of 1 / Den(4): one world unit.
HalfExtent == 8

\* virtual_camera_dimensions with the four has_ bits given.
Dimensions(has_bottom) ==
    [has_left |-> TRUE, has_right |-> TRUE, has_top |-> TRUE,
     has_bottom |-> has_bottom, left |-> HalfExtent, right |-> HalfExtent,
     top |-> HalfExtent, bottom |-> IF has_bottom THEN HalfExtent ELSE 0]

\* The virtual camera settings: off, sized by camera_width_world_units,
\* sized by complete dimensions, given incomplete dimensions, and enabled
\* with no size at all.
VirtualCameras ==
    [off |-> [use |-> FALSE, has_dims |-> FALSE, dims |-> Dimensions(FALSE),
              width |-> 0],
     width |-> [use |-> TRUE, has_dims |-> FALSE, dims |-> Dimensions(FALSE),
                width |-> 2],
     dims |-> [use |-> TRUE, has_dims |-> TRUE, dims |-> Dimensions(TRUE),
               width |-> 0],
     partial |-> [use |-> TRUE, has_dims |-> TRUE, dims |-> Dimensions(FALSE),
                  width |-> 2],
     unsized |-> [use |-> TRUE, has_dims |-> FALSE, dims |-> Dimensions(FALSE),
                  width |-> 0]]

kMinUpgradeTypes == 86

kMinUnitFeatures == 39

\* ConverterSettings, and of EnvironmentInfo the map and the number of
\* players that are not observers; mode is the settings' raw or visual part.
Settings(mode, supervised, action_repeat, num_unit_features, cam) ==
    [mode |-> mode, supervised |-> supervised,
     map_size |-> Size2DI(4, 4), raw_resolution |-> 4,
     max_unit_count |-> MaxUnits, max_selection_size |-> kMinSelectionSize,
     num_action_types |-> kMinActionTypes, num_unit_types |-> kMinUnitTypes,
     num_unit_features |-> num_unit_features, action_repeat |-> action_repeat,
     mask_offscreen_enemies |-> TRUE, add_effects_to_units |-> FALSE,
     add_cargo_to_units |-> TRUE,
     use_virtual_camera |-> VirtualCameras[cam].use,
     has_virtual_camera_dimensions |-> VirtualCameras[cam].has_dims,
     virtual_camera_dimensions |-> VirtualCameras[cam].dims,
     camera_width_world_units |-> VirtualCameras[cam].width,
     screen |-> Size2DI(2, 2), minimap |-> Size2DI(2, 2),
     non_observers |-> 2, num_upgrade_types |-> kMinUpgradeTypes,
     max_num_upgrades |-> 2, minimap_features |-> <<>>,
     screen_features |-> <<>>, add_opponent_features |-> FALSE,
     use_camera_position |-> FALSE, camera |-> FALSE]

\* Settings MakeConverter accepts.
ConverterSettings ==
    {Settings("raw", FALSE, FALSE, F, "width") : F \in {39, 40, 41}}
    \cup {Settings("raw", FALSE, TRUE, 39, "off")}
    \cup {Settings("raw", TRUE, FALSE, 39, "width")}
    \cup {Settings("raw", FALSE, FALSE, 39, cam) :
             cam \in {"dims", "partial", "unsized"}}
    \cup {Settings("visual", FALSE, FALSE, 39, "off")}

\* The unit lists of the game: an own transport before an enemy, and the
\* same enemy before another own transport.
UnitLists ==
    {<<RichUnit(ObservedTags[1], Self, Visible, NotCloaked, OnScreenPos),
       RichUnit(ObservedTags[3], Enemy, Visible, NotCloaked, OffScreenPos)>>,
     <<RichUnit(ObservedTags[3], Enemy, Visible, NotCloaked, OffScreenPos),
       RichUnit(ObservedTags[4], Self, Visible, NotCloaked, OnScreenPos)>>}

\* The player's observation with its force_action fields; the true camera
\* is on the first unit.
Observation(units, has_delay, delay, force_action) ==
    [units |-> units, effects |-> <<>>, camera |-> units[1].pos, player_id |-> 1,
     has_force_action_delay |-> has_delay, force_action_delay |-> delay,
     force_action |-> force_action]

\* current_observation_ before the first ConvertObservation.
EmptyObservation ==
    [units |-> <<>>, effects |-> <<>>, camera |-> [x |-> 0, y |-> 0],
     player_id |-> 0, has_force_action_delay |-> FALSE, force_action_delay |-> 0,
     force_action |-> <<>>]

\* The action a replay carries: an attack on the enemy by the first own unit.
ForcedAttack(units) ==
    LET enemy == FirstEnemy(units, 1)
        own == 3 - enemy
    IN [UnitCommand(74, <<units[own].tag>>, FALSE) EXCEPT
           !.has_target_unit_tag = TRUE, !.target_unit_tag = units[enemy].tag]

\* The largest force_action_delay of an observation.
MaxDelay == 2

\* The observations the converter is given: without force_action fields
\* from a live game, with them (or, wrongly, without) from a replay.
ConverterObservations(s) ==
    {Observation(units, FALSE, 0, <<>>) : units \in UnitLists}
    \cup IF ~s.supervised THEN {}
         ELSE {Observation(units, TRUE, delay, <<>>) :
                  units \in UnitLists, delay \in {0, MaxDelay}}
              \cup {Observation(units, TRUE, MaxDelay, <<ForcedAttack(units)>>) :
                       units \in UnitLists}

WithDelay(a) == [k \in DOMAIN a \cup {"delay"} |-> IF k = "delay" THEN 1 ELSE a[k]]

Without(a, key) == [k \in DOMAIN a \ {key} |-> a[k]]

Restrict(a, keys) == [k \in DOMAIN a \cap keys |-> a[k]]

\* The entries of the action map that Encode looks up for a function.
EntriesRead(s, function_id) ==
    IF function_id < 0 \/ function_id >= NumRawFunctions THEN {"function"}
    ELSE LET type == RawFunction(function_id).type
             repeat == IF s.action_repeat THEN {"repeat"} ELSE {}
         IN CASE type = "NO_OP" -> {"function"}
              [] type = "RAW_MOVE_CAMERA" -> {"function", "world"}
              [] type = "RAW_AUTOCAST" -> {"function", "unit_tags"}
              [] type = "RAW_CMD" -> {"function", "unit_tags", "queued"} \cup repeat
              [] type = "RAW_CMD_PT" ->
                   {"function", "unit_tags", "queued", "world"} \cup repeat
              [] type = "RAW_CMD_UNIT" ->
                   {"function", "unit_tags", "queued", "target_unit_tag"}
                   \cup repeat

\* An agent call and the calls that lack one of its entries.
LackingOne(a) == {a} \cup {Without(a, key) : key \in DOMAIN a}

\* Raw agent calls: one of each kind of function, a command on a negative
\* target, and function indices on either side of the table.
RawAgentCalls(s) ==
    {MakeFunctionCall(s, f, 0, 0, <<>>, 0, 0) : f \in {-1, 0, NumRawFunctions}}
    \cup {MakeFunctionCall(s, 8, 5, 0, <<>>, 0, 0)}
    \cup {MakeFunctionCall(s, 2, 5, 1, <<0>>, 0, 0)}
    \cup {MakeFunctionCall(s, 3, 0, 0, <<0>>, target, 0) : target \in {-1, 1}}
    \cup {MakeFunctionCall(s, 6, 0, 0, <<0, 1>>, 0, 1)}
    \cup {MakeFunctionCall(s, 9, 0, 0, <<1>>, 0, 0)}

\* A visual agent call of the function with the named arguments.
VisualCall(function, names) ==
    [k \in names \cup {"function"} |-> IF k = "function" THEN function ELSE 1]

\* Visual agent calls: every function of the table with its handler's
\* arguments and a delay, with one entry less, and on its own; and function
\* indices on either side of the table.
VisualAgentCalls ==
    UNION {LackingOne(VisualCall(f, ArgNames(GetAction(f).type) \cup {"delay"})) :
              f \in 0 .. NumVisualFunctions - 1}
    \cup {VisualCall(f, {}) : f \in 0 .. NumVisualFunctions - 1}
    \cup {VisualCall(f, {"delay"}) : f \in {-1, NumVisualFunctions}}

\* The action maps ConvertAction is called with: in raw mode the calls
\* above with the entries Encode looks up and a delay, and with one entry
\* less.
ConverterActions(s) ==
    IF s.mode = "raw"
      THEN UNION {LackingOne(Restrict(WithDelay(a),
                                      EntriesRead(s, a.function) \cup {"delay"})) :
                     a \in RawAgentCalls(s)}
    ELSE VisualAgentCalls

\* MakeConverter(settings, environment_info)
Init ==
    /\ settings_ \in ConverterSettings
    /\ current_observation_ = EmptyObservation
    /\ last_unit_tags_ = {}
    /\ last_target_unit_tag_ = -1
    /\ raw_camera_ = NoCamera
    /\ away_race_observed_ = Random
    /\ call = [op |-> "MakeConverter", status |-> "ok"]

\* converter.ConvertObservation(observation), raw mode, for an observation
\* of the given ones: the camera is
\* seeded, the unit matrix built with the camera and the last selection and
\* target, then converted, and the two ConvertObservation bodies run on them.
ConvertObservationOf(observations) ==
    /\ settings_.mode = "raw"
    /\ call.status # "abort"
    /\ \E observation \in observations :
       \E seeded \in {SeedCamera(settings_, raw_camera_, observation)} :
       \E tensor \in {RawUnitsFullVec(RawUnitsArgs(
                          settings_, observation, last_unit_tags_,
                          last_target_unit_tag_, seeded.camera, TRUE))} :
       \E uint8 \in {RawUnitsToUint8(tensor, settings_.num_unit_features)} :
       \E result \in {RawConvertObservation(settings_, observation, seeded,
                                            tensor, uint8)} :
       \E r \in {ConverterConvertObservation(settings_, observation, result,
                                             away_race_observed_)} :
          /\ current_observation_' = observation
          /\ raw_camera_' = r.camera
          /\ away_race_observed_' = r.race
          /\ call' = [op |-> "ConvertObservation", observation |-> observation,
                      result |-> result.status, status |-> r.status,
                      output |-> r.output]
    /\ UNCHANGED <<settings_, last_unit_tags_, last_target_unit_tag_>>

\* converter.ConvertObservation(observation) on the observations of the game
ConvertObservation == ConvertObservationOf(ConverterObservations(settings_))

\* converter.ConvertAction(action)
ConvertAction ==
    /\ call.status # "abort"
    /\ \E action \in ConverterActions(settings_) :
       \E sub \in SubConvertAction(settings_, current_observation_.units, action,
                                   last_unit_tags_, last_target_unit_tag_,
                                   raw_camera_) :
          LET r == ConverterConvertAction(action, sub.result)
          IN /\ last_unit_tags_' = sub.last_unit_tags
             /\ last_target_unit_tag_' = sub.last_target_unit_tag
             /\ raw_camera_' = sub.camera
             /\ call' = [op |-> "ConvertAction", action |-> action,
                         converted_or |-> sub.result, status |-> r.status,
                         request_action |-> r.request_action, delay |-> r.delay]
    /\ UNCHANGED <<settings_, current_observation_, away_race_observed_>>

Next == ConvertObservation \/ ConvertAction

Spec == Init /\ [][Next]_vars

\* A DecodeAction that looks the request's tags up in an observation
\* without units.
RawDecodeAction_Empty(s, current_observation, action) == Decode(s, <<>>, action)

\* RawConverter::DecodeAction(action)
RawDecodeAction(s, current_observation, action) ==
    Decode(s, current_observation.units, action)

\* The requests DecodeAction is given: the empty request, the attack on the
\* enemy by the own unit of either unit list, and a command by the unit
\* that is at different positions of the two lists.
DecodedRequests ==
    {<<>>, <<UnitCommand(93, <<ObservedTags[3]>>, FALSE)>>}
    \cup {<<ForcedAttack(units)>> : units \in UnitLists}

\* converter.DecodeAction(action), raw mode; the method is const.
DecodeAction ==
    /\ settings_.mode = "raw"
    /\ call.status # "abort"
    /\ \E action \in DecodedRequests :
       \E decoded \in {RawDecodeAction(settings_, current_observation_, action)} :
          call' = [op |-> "DecodeAction", action |-> action, decoded |-> decoded,
                   status |-> IF Has(decoded, "aborted") THEN "abort" ELSE "ok"]
    /\ UNCHANGED <<settings_, current_observation_, last_unit_tags_,
                   last_target_unit_tag_, raw_camera_, away_race_observed_>>

NextDecodeAction == ConvertObservation \/ ConvertAction \/ DecodeAction

\* The converter with DecodeAction among its calls.
SpecDecodeAction == Init /\ [][NextDecodeAction]_vars

\* An enemy unit of the given type.
Opponent(tag, unit_type) ==
    [RichUnit(tag, Enemy, Visible, NotCloaked, OffScreenPos) EXCEPT
        !.unit_type = unit_type]

\* Unit lists as the opponent comes into view: no enemy; a Terran enemy
\* after an own unit; a Zerg enemy before a Terran one; an enemy of a
\* neutral type (324); an enemy of a type the race map does not hold (3).
OpponentUnitLists ==
    {<<RichUnit(ObservedTags[1], Self, Visible, NotCloaked, OnScreenPos)>>,
     <<RichUnit(ObservedTags[1], Self, Visible, NotCloaked, OnScreenPos),
       Opponent(ObservedTags[3], 5)>>,
     <<Opponent(ObservedTags[4], 7), Opponent(ObservedTags[3], 5)>>,
     <<Opponent(ObservedTags[3], 324)>>,
     <<Opponent(ObservedTags[3], 3)>>}

\* The observations of those unit lists: without force_action fields, and
\* for a replay with a delay of zero or more.
OpponentObservations(s) ==
    {Observation(units, FALSE, 0, <<>>) : units \in OpponentUnitLists}
    \cup IF ~s.supervised THEN {}
         ELSE {Observation(units, TRUE, delay, <<>>) :
                  units \in OpponentUnitLists, delay \in {0, MaxDelay}}

\* converter.ConvertObservation(observation) as the opponent comes into view
ObserveOpponent == ConvertObservationOf(OpponentObservations(settings_))

NextOpponent == ObserveOpponent

\* The converter on observations that differ in their enemy units.  Only
\* AwayRaceObserved, which ConvertObservation calls, assigns
\* away_race_observed_, so the other calls are left out.
SpecOpponent == Init /\ [][NextOpponent]_vars

----------------------------------------------------------------------------
(* The visual codec on its own: an action context is drawn, requests of    *)
(* the game are decoded and the decoded call is encoded again, as          *)
(* VisualActionsTest does, and the available actions of observations are   *)
(* computed.  The number of functions the context shows ranges over counts *)
(* below and up to the size of the table excerpt.                          *)

\* Action contexts: screen and minimap widths and the number of functions.
VisualContexts ==
    {[screen |-> Size2DI(2, 2), minimap |-> Size2DI(3, 3), num_action_types |-> n] :
        n \in {14, 16, NumVisualFunctions}}

Point(x, y) == [x |-> x, y |-> y]

\* A feature-layer unit command of each target shape.
CmdQuickAction(ability_id, queue) ==
    [kind |-> "feature_layer.unit_command", ability_id |-> ability_id,
     queue_command |-> queue]

CmdScreenAction(ability_id, queue, p) ==
    [kind |-> "feature_layer.unit_command", ability_id |-> ability_id,
     queue_command |-> queue, target_screen_coord |-> p]

CmdMinimapAction(ability_id, queue, p) ==
    [kind |-> "feature_layer.unit_command", ability_id |-> ability_id,
     queue_command |-> queue, target_minimap_coord |-> p]

\* UI and feature-layer actions of every kind Decode tells apart, with
\* points inside the screen and the minimap; a UI action with nothing set;
\* abilities that are general (74, 93, 42), specialised (23, 18, 43), not in
\* the table (99) and of another command shape than the action's.
VisualRequestActions ==
    {[kind |-> "ui.multi_panel", type |-> 3, unit_index |-> 1],
     [kind |-> "ui.control_group", action |-> 3, control_group_index |-> 2],
     [kind |-> "ui.select_idle_worker", type |-> 2],
     [kind |-> "ui.select_army", selection_add |-> TRUE],
     [kind |-> "ui.select_warp_gates", selection_add |-> FALSE],
     [kind |-> "ui.select_larva"],
     [kind |-> "ui.cargo_panel", unit_index |-> 1],
     [kind |-> "ui.production_panel", unit_index |-> 1],
     [kind |-> "ui.toggle_autocast", ability_id |-> 42],
     [kind |-> "ui.toggle_autocast", ability_id |-> 43],
     [kind |-> "feature_layer.camera_move", center_minimap |-> Point(2, 1)],
     [kind |-> "feature_layer.unit_selection_point", type |-> 2,
      selection_screen_coord |-> Point(0, 1)],
     [kind |-> "feature_layer.unit_selection_rect", selection_add |-> FALSE,
      p0 |-> Point(0, 0), p1 |-> Point(1, 1)],
     CmdScreenAction(74, FALSE, Point(1, 0)),
     CmdScreenAction(23, TRUE, Point(0, 1)),
     CmdMinimapAction(74, TRUE, Point(2, 1)),
     CmdQuickAction(93, TRUE),
     CmdQuickAction(18, FALSE),
     CmdQuickAction(42, FALSE),
     CmdQuickAction(99, FALSE),
     ActionUi}

\* The requests of one action and of two.
VisualRequests ==
    {<<a>> : a \in VisualRequestActions}
    \cup {<<a, b>> : a \in VisualRequestActions, b \in VisualRequestActions}

AvailableAbility(ability_id, requires_point) ==
    [ability_id |-> ability_id, requires_point |-> requires_point]

\* Available abilities: general, specialised, one the table does not hold
\* and one with no applicable function.
AvailableAbilities ==
    {AvailableAbility(74, TRUE), AvailableAbility(93, FALSE),
     AvailableAbility(42, TRUE), AvailableAbility(42, FALSE),
     AvailableAbility(23, TRUE), AvailableAbility(18, FALSE),
     AvailableAbility(43, FALSE), AvailableAbility(99, TRUE),
     AvailableAbility(93, TRUE)}

PlayerCounts(n) ==
    [idle_worker_count |-> n, army_count |-> n, warp_gate_count |-> n,
     larva_count |-> n]

\* Observations: up to two available abilities, with each UI panel and the
\* player's counts all zero or all one.
VisualObservations ==
    {[abilities |-> a, ui_data |-> u[1], player_common |-> PlayerCounts(u[2])] :
        a \in {<<>>} \cup {<<x>> : x \in AvailableAbilities}
              \cup {<<x, y>> : x \in AvailableAbilities, y \in AvailableAbilities},
        u \in {<<"single", 0>>, <<"multi", 1>>, <<"cargo", 0>>, <<"production", 1>>}}

InitVisual ==
    /\ settings_ \in VisualContexts
    /\ current_observation_ = EmptyObservation
    /\ last_unit_tags_ = {}
    /\ last_target_unit_tag_ = -1
    /\ raw_camera_ = NoCamera
    /\ away_race_observed_ = Random
    /\ call = [op |-> "VisualActions"]

\* Decode(request_action, action_context)
DecodeVisualRequest ==
    /\ \E actions \in VisualRequests :
          call' = [op |-> "Decode", actions |-> actions,
                   decoded |-> VisualDecode(actions, ActionContext(settings_))]
    /\ UNCHANGED <<settings_, current_observation_, last_unit_tags_,
                   last_target_unit_tag_, raw_camera_, away_race_observed_>>

\* The decoded call encoded again: GetAction(function).Encode(decoded,
\* action_context) unless the function is the no-op.
EncodeDecoded ==
    /\ call.op = "Decode"
    /\ call.decoded # DecodeAborted
    /\ LET func == GetAction(call.decoded.function)
       IN call' = [op |-> "Encode", actions |-> call.actions,
                   decoded |-> call.decoded,
                   encoded |-> IF func.type # "no_op"
                                 THEN VisualActionEncode(func, call.decoded,
                                                         ActionContext(settings_))
                               ELSE Ok(<<>>)]
    /\ UNCHANGED <<settings_, current_observation_, last_unit_tags_,
                   last_target_unit_tag_, raw_camera_, away_race_observed_>>

\* AvailableActions(obs, num_action_types)
ComputeAvailableActions ==
    /\ \E obs \in VisualObservations :
          call' = [op |-> "AvailableActions", obs |-> obs,
                   available_actions |->
                       AvailableActions(obs, settings_.num_action_types)]
    /\ UNCHANGED <<settings_, current_observation_, last_unit_tags_,
                   last_target_unit_tag_, raw_camera_, away_race_observed_>>

NextVisual == DecodeVisualRequest \/ EncodeDecoded \/ ComputeAvailableActions

SpecVisual == InitVisual /\ [][NextVisual]_vars

----------------------------------------------------------------------------
(* MakeConverter, ObservationSpec and the keys and shapes of the output of *)
(* ConvertObservation, for settings MakeConverter accepts and rejects.     *)

\* The CHECKs of the RawActionsEncoder constructor, which the Converter
\* constructor runs for raw settings.
EncoderCheckFails(s) ==
    \/ s.map_size.x <= 0 \/ s.map_size.y <= 0
    \/ s.max_unit_count <= 0
    \/ s.raw_resolution <= 0
    \/ s.num_action_types <= 0

\* A MakeConverter that leaves out the two checks of the raw settings.
MakeConverter_NoRawChecks(s) ==
    IF s.non_observers # 2 THEN "error"
    ELSE IF s.mode \notin {"raw", "visual"} THEN "error"
    ELSE IF s.num_action_types < kMinActionTypes THEN "error"
    ELSE IF s.num_unit_types < kMinUnitTypes THEN "error"
    ELSE IF s.num_upgrade_types < kMinUpgradeTypes THEN "error"
    ELSE IF s.max_num_upgrades <= 0 THEN "error"
    ELSE IF /\ Len(s.minimap_features) > 0 \/ s.mode = "visual"
            /\ \/ s.minimap.x <= 0
               \/ s.minimap.y <= 0
               \/ s.minimap.x # s.minimap.y
      THEN "error"
    ELSE IF s.mode = "visual"
      THEN IF s.screen.x <= 0 \/ s.screen.y <= 0 \/ s.screen.x # s.screen.y
             THEN "error"
           ELSE "ok"
    ELSE IF EncoderCheckFails(s) THEN "abort"
    ELSE "ok"

\* MakeConverter(settings, environment_info): "error" for a failure status,
\* "abort" when a CHECK of the constructor ends the process, "ok" when a
\* converter is returned.
MakeConverter(s) ==
    IF s.non_observers # 2 THEN "error"
    ELSE IF s.mode \notin {"raw", "visual"} THEN "error"
    ELSE IF s.num_action_types < kMinActionTypes THEN "error"
    ELSE IF s.num_unit_types < kMinUnitTypes THEN "error"
    ELSE IF s.num_upgrade_types < kMinUpgradeTypes THEN "error"
    ELSE IF s.max_num_upgrades <= 0 THEN "error"
    ELSE IF /\ Len(s.minimap_features) > 0 \/ s.mode = "visual"
            /\ \/ s.minimap.x <= 0
               \/ s.minimap.y <= 0
               \/ s.minimap.x # s.minimap.y
      THEN "error"
    ELSE IF s.mode = "visual"
      THEN IF s.screen.x <= 0 \/ s.screen.y <= 0 \/ s.screen.x # s.screen.y
             THEN "error"
           ELSE "ok"
    ELSE IF s.num_unit_features < kMinUnitFeatures THEN "error"
    ELSE IF s.max_selection_size < kMinSelectionSize THEN "error"
    ELSE IF EncoderCheckFails(s) THEN "abort"
    ELSE "ok"

\* Settings with every option of the observation: supervised, action
\* repeat, the virtual camera, a minimap feature, the opponent's features,
\* the camera position and the camera plane, and a screen feature.
OptionSettings ==
    {[Settings("raw", sup, rep, kMinUnitFeatures, cam) EXCEPT
         !.minimap_features = mf, !.add_opponent_features = opp,
         !.use_camera_position = ucp, !.camera = c] :
        sup \in BOOLEAN, rep \in BOOLEAN, cam \in {"off", "width"},
        mf \in {<<>>, <<"height_map">>}, opp \in BOOLEAN, ucp \in BOOLEAN,
        c \in BOOLEAN}
    \cup {[Settings("visual", sup, FALSE, kMinUnitFeatures, "off") EXCEPT
              !.minimap_features = mf, !.add_opponent_features = opp,
              !.screen_features = sf] :
             sup \in BOOLEAN, mf \in {<<>>, <<"height_map">>}, opp \in BOOLEAN,
             sf \in {<<>>, <<"height_map", "player_relative">>}}

\* The settings with one value MakeConverter looks at changed.
Flawed(s) ==
    {[s EXCEPT !.non_observers = n] : n \in {1, 3}}
    \cup {[s EXCEPT !.mode = "none"]}
    \cup {[s EXCEPT !.num_action_types = kMinActionTypes - 1],
          [s EXCEPT !.num_unit_types = kMinUnitTypes - 1],
          [s EXCEPT !.num_upgrade_types = kMinUpgradeTypes - 1],
          [s EXCEPT !.max_num_upgrades = 0],
          [s EXCEPT !.num_unit_features = kMinUnitFeatures - 1],
          [s EXCEPT !.max_selection_size = kMinSelectionSize - 1]}
    \cup {[s EXCEPT !.minimap = size] :
             size \in {Size2DI(0, 0), Size2DI(2, 0), Size2DI(2, 3)}}
    \cup {[s EXCEPT !.screen = size] :
             size \in {Size2DI(0, 0), Size2DI(0, 2), Size2DI(3, 2)}}

\* The settings MakeConverter is called with.
OfferedSettings == OptionSettings \cup UNION {Flawed(s) : s \in OptionSettings}

\* kNumPlayerFeatures of convert_obs.h.
kNumPlayerFeatures == 11

\* The shape of a tensor that has none: a scalar.
Scalar == <<>>

\* A map with the one entry key |-> shape, and none when the option is off.
Entry(present, key, shape) == IF present THEN key :> shape ELSE <<>>

\* The map with "action/" before every key.
ActionLabels(m) ==
    [label \in {"action/" \o k : k \in DOMAIN m} |->
        m[CHOOSE k \in DOMAIN m : "action/" \o k = label]]

\* One entry for each feature layer of the list, under prefix.
LayerEntries(prefix, features, shape) ==
    [name \in {prefix \o features[i] : i \in DOMAIN features} |-> shape]

\* RawConverter::ActionSpec(): the shapes.
RawActionSpec(s) ==
    [function |-> Scalar, unit_tags |-> <<s.max_selection_size>>,
     target_unit_tag |-> Scalar, world |-> Scalar, queued |-> Scalar]
    @@ Entry(s.action_repeat, "repeat", Scalar)

\* VisualConverter::ActionSpec(): the shapes.
VisualActionSpec(s) ==
    [k \in {"function", "screen", "minimap", "screen2", "queued",
            "control_group_act", "control_group_id", "select_point_act",
            "select_add", "select_unit_act", "select_unit_id", "select_worker",
            "build_queue_id", "unload_id"} |-> Scalar]

\* RawConverter::ObservationSpec(): the shapes.
RawObservationSpec(s) ==
    [raw_units |-> <<s.max_unit_count, s.num_unit_features + 2>>]
    @@ Entry(s.use_camera_position, "camera_position", <<2>>)
    @@ Entry(s.use_camera_position, "camera_size", <<2>>)
    @@ Entry(s.camera, "camera", <<s.raw_resolution, s.raw_resolution>>)
    @@ (IF s.supervised THEN ActionLabels(RawActionSpec(s)) ELSE <<>>)

\* VisualConverter::ObservationSpec(): the shapes.
VisualObservationSpec(s) ==
    [available_actions |-> <<s.num_action_types>>]
    @@ LayerEntries("screen_", s.screen_features, <<s.screen.x, s.screen.y>>)
    @@ (IF s.supervised THEN ActionLabels(VisualActionSpec(s)) ELSE <<>>)

\* Converter::ObservationSpec(): the shape declared for every key.
ObservationSpec(s) ==
    (IF s.mode = "raw" THEN RawObservationSpec(s) ELSE VisualObservationSpec(s))
    @@ [game_loop |-> <<1>>, player |-> <<kNumPlayerFeatures>>,
        home_race_requested |-> <<1>>, away_race_requested |-> <<1>>,
        away_race_observed |-> <<1>>,
        upgrades_fixed_length |-> <<s.max_num_upgrades>>,
        unit_counts_bow |-> <<s.num_unit_types>>, mmr |-> Scalar]
    @@ LayerEntries("minimap_", s.minimap_features, <<s.minimap.x, s.minimap.y>>)
    @@ (IF s.add_opponent_features
          THEN [opponent_player |-> <<10>>,
                opponent_unit_counts_bow |-> <<s.num_unit_types>>,
                opponent_upgrades_fixed_length |-> <<s.max_num_upgrades>>]
        ELSE <<>>)
    @@ Entry(s.supervised, "action/delay", Scalar)

\* The shapes of the tensors of a function call: unit_tags is a vector, the
\* other arguments are scalars of MakeTensor(int).
CallShapes(action) ==
    [k \in DOMAIN action |->
        IF k = "unit_tags" THEN <<Len(action[k])>> ELSE Scalar]

\* RawCamera::RenderCamera: the CHECK_LT on the rendered bounds fails.
RenderCameraFails(camera, s) ==
    LET Px(x, y) == WorldToMinimapPx([x |-> x, y |-> y], s.map_size, Resolution(s))
        left == Px(camera.pos_x_ - camera.left_, camera.pos_y_).x
        right == Px(camera.pos_x_ + camera.right_, camera.pos_y_).x
        top == Px(camera.pos_x_, camera.pos_y_ - camera.top_).y
        bottom == Px(camera.pos_x_, camera.pos_y_ + camera.bottom_).y
    IN ~(left < right /\ bottom < top)

\* RawConverter::ConvertObservation, the camera entries: the outcomes.
\* Without use_camera_position and without the virtual camera, the camera
\* plane is rendered from output["camera_position"] and
\* output["camera_size"], which that expression inserts as empty tensors
\* and whose elements 0 and 1 SeparateCamera then reads: the process ends,
\* or the plane is rendered from whatever was read.
CameraEntries(s, camera) ==
    LET position == Entry(s.use_camera_position, "camera_position", <<2>>)
                    @@ Entry(s.use_camera_position, "camera_size", <<2>>)
        plane == "camera" :> <<s.raw_resolution, s.raw_resolution>>
        Done(shapes) == [status |-> "ok", shapes |-> shapes]
        Abort == [status |-> "abort", shapes |-> <<>>]
    IN IF ~s.camera THEN {Done(position)}
       ELSE IF s.use_virtual_camera
         THEN IF RenderCameraFails(camera, s) THEN {Abort}
              ELSE {Done(position @@ plane)}
       ELSE IF s.use_camera_position THEN {Done(position @@ plane)}
       ELSE {Abort,
             Done([camera_position |-> Scalar, camera_size |-> Scalar] @@ plane)}

\* The entries Converter::ConvertObservation adds for either mode, given
\* what the rest of the call returned (r, of ConverterConvertObservation).
\* FeatureLayer8bit shapes a layer by the size of the observation's
\* height_map and ends the process when that size is not positive.
ConverterEntries(s, obs, r) ==
    LET layers == LayerEntries("minimap_", s.minimap_features,
                               <<obs.minimap_size.y, obs.minimap_size.x>>)
    IN IF r.status # "ok" THEN [status |-> r.status, shapes |-> <<>>]
       ELSE IF /\ Len(s.minimap_features) > 0
               /\ obs.minimap_size.x <= 0 \/ obs.minimap_size.y <= 0
         THEN [status |-> "abort", shapes |-> <<>>]
       ELSE [status |-> "ok",
             shapes |->
                 [game_loop |-> <<1>>, player |-> <<kNumPlayerFeatures>>,
                  home_race_requested |-> <<1>>, away_race_requested |-> <<1>>,
                  away_race_observed |-> <<1>>,
                  upgrades_fixed_length |-> <<s.max_num_upgrades>>,
                  unit_counts_bow |-> <<s.num_unit_types>>, mmr |-> Scalar]
                 @@ layers
                 @@ (IF s.add_opponent_features
                       THEN [opponent_player |-> <<10>>,
                             opponent_unit_counts_bow |-> <<s.num_unit_types>>,
                             opponent_upgrades_fixed_length |->
                                 <<s.max_num_upgrades>>]
                     ELSE <<>>)
                 @@ Entry(s.supervised, "action/delay", Scalar)]

\* VisualConverter::ConvertObservation(observation): the status, the decoded
\* force_action and the shapes of the output.
VisualConvertObservation(s, obs) ==
    LET available == AvailableActions(obs, s.num_action_types)
        action == VisualDecode(obs.force_action, ActionContext(s))
        screen == LayerEntries("screen_", s.screen_features,
                               <<obs.screen_size.y, obs.screen_size.x>>)
        Return(status, labels, shapes) ==
            [status |-> status, action |-> labels, shapes |-> shapes]
    IN IF available = DecodeAborted THEN Return("abort", NoAction, <<>>)
       ELSE IF /\ Len(s.screen_features) > 0
               /\ obs.screen_size.x <= 0 \/ obs.screen_size.y <= 0
         THEN Return("abort", NoAction, <<>>)
       ELSE IF ~s.supervised
         THEN Return("ok", NoAction,
                     ("available_actions" :> <<Len(available)>>) @@ screen)
       ELSE IF ~obs.has_force_action THEN Return("error", NoAction, <<>>)
       ELSE IF action = DecodeAborted THEN Return("abort", NoAction, <<>>)
       ELSE IF action.function < 0 THEN Return("error", NoAction, <<>>)
       ELSE IF action.function >= s.num_action_types
         THEN Return("error", NoAction, <<>>)
       ELSE Return("ok", action,
                   ("available_actions" :> <<Len(available)>>) @@ screen
                   @@ ActionLabels(CallShapes(action)))

\* An observation with the fields both converters read; the feature layers
\* have the sizes the game was asked for, those of the settings.
FullObservation(s, units, has_delay, delay, has_force_action, force_action, abilities) ==
    Observation(units, has_delay, delay, force_action)
    @@ [has_force_action |-> has_force_action, abilities |-> abilities,
        ui_data |-> "single", player_common |-> PlayerCounts(0),
        minimap_size |-> s.minimap, screen_size |-> s.screen]

\* Observations of a live game and, for supervised settings, of a replay:
\* with and without the delay, with a forced action and with none.
FullObservations(s) ==
    IF s.mode = "raw"
      THEN {FullObservation(s, units, FALSE, 0, FALSE, <<>>, <<>>) :
               units \in UnitLists}
           \cup IF ~s.supervised THEN {}
                ELSE {FullObservation(s, units, TRUE, delay, TRUE, <<>>, <<>>) :
                         units \in UnitLists, delay \in {0, MaxDelay}}
                     \cup {FullObservation(s, units, TRUE, MaxDelay, TRUE,
                                           <<ForcedAttack(units)>>, <<>>) :
                              units \in UnitLists}
    ELSE {FullObservation(s, units, FALSE, 0, FALSE, <<>>, abilities) :
             units \in UnitLists,
             abilities \in {<<>>, <<AvailableAbility(74, TRUE)>>,
                            <<AvailableAbility(99, TRUE)>>}}
         \cup IF ~s.supervised THEN {}
              ELSE {FullObservation(s, units, TRUE, MaxDelay, has_force_action,
                                    force_action, <<AvailableAbility(74, TRUE)>>) :
                       units \in UnitLists, has_force_action \in BOOLEAN,
                       force_action \in
                           {<<>>,
                            <<[kind |-> "ui.select_army", selection_add |-> TRUE]>>,
                            <<CmdScreenAction(74, FALSE, Point(1, 0))>>}}

\* MakeConverter(settings, environment_info) with any settings.
InitSettings ==
    /\ settings_ \in OfferedSettings
    /\ current_observation_ = EmptyObservation
    /\ last_unit_tags_ = {}
    /\ last_target_unit_tag_ = -1
    /\ raw_camera_ = NoCamera
    /\ away_race_observed_ = Random
    /\ call = [op |-> "MakeConverter", status |-> MakeConverter(settings_)]

\* converter.ObservationSpec(), of a converter MakeConverter returned.
GetObservationSpec ==
    /\ MakeConverter(settings_) = "ok"
    /\ call.status # "abort"
    /\ call' = [op |-> "ObservationSpec", status |-> "ok",
                spec |-> ObservationSpec(settings_)]
    /\ UNCHANGED <<settings_, current_observation_, last_unit_tags_,
                   last_target_unit_tag_, raw_camera_, away_race_observed_>>

\* converter.ConvertObservation(observation) in raw mode, with the camera
\* entries, recording the shape of every tensor returned.
ConvertRawObservation ==
    /\ MakeConverter(settings_) = "ok"
    /\ settings_.mode = "raw"
    /\ call.status # "abort"
    /\ \E observation \in FullObservations(settings_) :
       \E seeded \in {SeedCamera(settings_, raw_camera_, observation)} :
       \E tensor \in {RawUnitsFullVec(RawUnitsArgs(
                          settings_, observation, last_unit_tags_,
                          last_target_unit_tag_, seeded.camera, TRUE))} :
       \E uint8 \in {RawUnitsToUint8(tensor, settings_.num_unit_features)} :
       \E result \in {RawConvertObservation(settings_, observation, seeded,
                                            tensor, uint8)} :
       \E r \in {ConverterConvertObservation(settings_, observation, result,
                                             away_race_observed_)} :
       \E entries \in {ConverterEntries(settings_, observation, r)} :
       \E c \in (IF seeded.status = "ok"
                   THEN CameraEntries(settings_, seeded.camera)
                 ELSE {[status |-> seeded.status, shapes |-> <<>>]}) :
          /\ current_observation_' = observation
          /\ raw_camera_' = r.camera
          /\ away_race_observed_' = r.race
          /\ call' = IF c.status # "ok"
                       THEN [op |-> "ConvertObservation", status |-> c.status,
                             shapes |-> <<>>]
                     ELSE IF entries.status # "ok"
                       THEN [op |-> "ConvertObservation",
                             status |-> entries.status, shapes |-> <<>>]
                     ELSE [op |-> "ConvertObservation", status |-> "ok",
                           shapes |->
                               c.shapes
                               @@ ("raw_units" :>
                                      <<Len(r.output.raw_units),
                                        Cardinality(DOMAIN r.output.raw_units[1])>>)
                               @@ ActionLabels(CallShapes(r.output.action))
                               @@ entries.shapes]
    /\ UNCHANGED <<settings_, last_unit_tags_, last_target_unit_tag_>>

\* converter.ConvertObservation(observation) in visual mode, recording the
\* shape of every tensor returned.
ConvertVisualObservation ==
    /\ MakeConverter(settings_) = "ok"
    /\ settings_.mode = "visual"
    /\ call.status # "abort"
    /\ \E observation \in FullObservations(settings_) :
       \E v \in {VisualConvertObservation(settings_, observation)} :
       \E r \in {ConverterConvertObservation(
                     settings_, observation,
                     [status |-> v.status, camera |-> raw_camera_,
                      raw_units |-> <<>>, action |-> v.action],
                     away_race_observed_)} :
       \E entries \in {ConverterEntries(settings_, observation, r)} :
          /\ away_race_observed_' = r.race
          /\ call' = [op |-> "ConvertObservation", status |-> entries.status,
                      shapes |-> IF entries.status = "ok"
                                   THEN v.shapes @@ entries.shapes
                                 ELSE <<>>]
    /\ UNCHANGED <<settings_, current_observation_, last_unit_tags_,
                   last_target_unit_tag_, raw_camera_>>

NextSettings ==
    GetObservationSpec \/ ConvertRawObservation \/ ConvertVisualObservation

SpecSettings == InitSettings /\ [][NextSettings]_vars
----------------------------------------------------------------------------
(* The uint8 lookups of game_data/uint8_lookup.cc, called on their own *)

\* The largest value of a uint8 tensor cell.
MaxUint8 == 255

\* The ids offered to the lookups: the listed ids, the redundant ids, the
\* ground id 0 and an id no list holds.
OfferedUnitIds == Range(kUnitsList) \cup DOMAIN RedundantUnits \cup {0, 1}

OfferedUpgradeIds == Range(kUpgradesList) \cup {0, 1}

InitLookup ==
    /\ settings_ = Settings("raw", FALSE, FALSE, 39, "off")
    /\ current_observation_ = EmptyObservation
    /\ last_unit_tags_ = {}
    /\ last_target_unit_tag_ = -1
    /\ raw_camera_ = NoCamera
    /\ away_race_observed_ = Random
    /\ call = [op |-> "Uint8Lookup"]

\* PySc2ToUint8(data)
CallPySc2ToUint8 ==
    /\ \E data \in OfferedUnitIds :
          call' = [op |-> "PySc2ToUint8", list |-> "units", data |-> data,
                   aborted |-> LookUpFails(data, kUnitsList, RedundantUnits),
                   value |-> PySc2ToUint8(data)]
    /\ UNCHANGED <<settings_, current_observation_, last_unit_tags_,
                   last_target_unit_tag_, raw_camera_, away_race_observed_>>

\* PySc2ToUint8Upgrades(data)
CallPySc2ToUint8Upgrades ==
    /\ \E data \in OfferedUpgradeIds :
          call' = [op |-> "PySc2ToUint8", list |-> "upgrades", data |-> data,
                   aborted |-> LookUpFails(data, kUpgradesList, NoRedundantUnits),
                   value |-> PySc2ToUint8Upgrades(data)]
    /\ UNCHANGED <<settings_, current_observation_, last_unit_tags_,
                   last_target_unit_tag_, raw_camera_, away_race_observed_>>

\* Uint8ToPySc2(utype) on a cell of a uint8 tensor
CallUint8ToPySc2 ==
    /\ \E utype \in 0 .. MaxUint8 :
          call' = [op |-> "Uint8ToPySc2", list |-> "units", utype |-> utype,
                   aborted |-> Uint8ToPySc2Fails(utype),
                   value |-> IF Uint8ToPySc2Fails(utype) THEN 0
                             ELSE Uint8ToPySc2(utype)]
    /\ UNCHANGED <<settings_, current_observation_, last_unit_tags_,
                   last_target_unit_tag_, raw_camera_, away_race_observed_>>

\* Uint8ToPySc2Upgrades(upgrade_type) on a cell of a uint8 tensor
CallUint8ToPySc2Upgrades ==
    /\ \E upgrade_type \in 0 .. MaxUint8 :
          call' = [op |-> "Uint8ToPySc2", list |-> "upgrades",
                   utype |-> upgrade_type,
                   aborted |-> Uint8ToPySc2UpgradesFails(upgrade_type),
                   value |-> IF Uint8ToPySc2UpgradesFails(upgrade_type) THEN 0
                             ELSE Uint8ToPySc2Upgrades(upgrade_type)]
    /\ UNCHANGED <<settings_, current_observation_, last_unit_tags_,
                   last_target_unit_tag_, raw_camera_, away_race_observed_>>

\* Uint8ToPySc2 or Uint8ToPySc2Upgrades on the value the forward lookup
\* returned.
ConvertBack ==
    /\ call.op = "PySc2ToUint8"
    /\ ~call.aborted
    /\ LET fails == IF call.list = "units" THEN Uint8ToPySc2Fails(call.value)
                    ELSE Uint8ToPySc2UpgradesFails(call.value)
       IN call' = [op |-> "ConvertBack", list |-> call.list, data |-> call.data,
                   utype |-> call.value, aborted |-> fails,
                   value |-> IF fails THEN 0
                             ELSE IF call.list = "units"
                                    THEN Uint8ToPySc2(call.value)
                             ELSE Uint8ToPySc2Upgrades(call.value)]
    /\ UNCHANGED <<settings_, current_observation_, last_unit_tags_,
                   last_target_unit_tag_, raw_camera_, away_race_observed_>>

NextLookup ==
    \/ CallPySc2ToUint8
    \/ CallPySc2ToUint8Upgrades
    \/ CallUint8ToPySc2
    \/ CallUint8ToPySc2Upgrades
    \/ ConvertBack

SpecLookup == InitLookup /\ [][NextLookup]_vars
----------------------------------------------------------------------------
(* The virtual camera on its own: a camera is constructed over a map, moved *)
(* and rendered.                                                            *)

\* RawCamera::RenderCamera, the tensor built after the CHECKs: 1 for the
\* pixels between the rendered bounds, the bounds included.
RenderCameraPlane(camera, s) ==
    LET Px(x, y) == WorldToMinimapPx([x |-> x, y |-> y], s.map_size, Resolution(s))
        left == Px(camera.pos_x_ - camera.left_, camera.pos_y_).x
        right == Px(camera.pos_x_ + camera.right_, camera.pos_y_).x
        top == Px(camera.pos_x_, camera.pos_y_ - camera.top_).y
        bottom == Px(camera.pos_x_, camera.pos_y_ + camera.bottom_).y
    IN [y \in 0 .. Resolution(s) - 1 |->
          [x \in 0 .. Resolution(s) - 1 |->
              Bool(left <= x /\ x <= right /\ bottom <= y /\ y <= top)]]

\* Maps and square resolutions the converter accepts.
CameraSettings ==
    {EncoderSettings(m, r, 3, 3, NumRawFunctions, FALSE) :
        m \in {Size2DI(4, 4), Size2DI(4, 2)}, r \in {2, 4}}

\* Half-extents in units of 1 / Den(r): the least positive one, and a half
\* and the whole of HalfExtent.
Extents == {1, HalfExtent \div 2, HalfExtent}

\* Coordinates of a camera centre in units of 1 / Den(r): at the origin,
\* just off it, on and between whole world units, on the far edge of the
\* map and beyond it.
CentreCoords(s) ==
    LET d == Den(Resolution(s))
    IN {0, 1, d, d + d \div 2, MaxDim(s) * d, (MaxDim(s) + 1) * d}

InitCamera ==
    /\ settings_ \in CameraSettings
    /\ current_observation_ = EmptyObservation
    /\ last_unit_tags_ = {}
    /\ last_target_unit_tag_ = -1
    /\ \E x, y \in CentreCoords(settings_), h, v \in Extents :
          /\ RawCameraValid(h, h, v, v)
          /\ raw_camera_ = RawCamera(x, y, h, h, v, v)
    /\ away_race_observed_ = Random
    /\ call = [op |-> "RawCamera"]

\* raw_camera_->Move(x, y)
MoveCameraTo ==
    /\ call.op = "RawCamera"
    /\ \E x, y \in CentreCoords(settings_) :
          /\ raw_camera_' = Move(raw_camera_, x, y)
          /\ call' = [op |-> "Move"]
    /\ UNCHANGED <<settings_, current_observation_, last_unit_tags_,
                   last_target_unit_tag_, away_race_observed_>>

\* raw_camera_->RenderCamera(map_size, resolution)
RenderTheCamera ==
    /\ call.op \in {"RawCamera", "Move"}
    /\ call' = [op |-> "RenderCamera",
                aborted |-> RenderCameraFails(raw_camera_, settings_),
                plane |-> RenderCameraPlane(raw_camera_, settings_)]
    /\ UNCHANGED <<settings_, current_observation_, last_unit_tags_,
                   last_target_unit_tag_, raw_camera_, away_race_observed_>>

NextCamera == MoveCameraTo \/ RenderTheCamera

SpecCamera == InitCamera /\ [][NextCamera]_vars
----------------------------------------------------------------------------
(* Round trips of the codec *)

IsGeneral(function_id) == RawFunction(function_id).general_id = 0

TypeOf(x) == RawFunction(x.function).type

CommandTypes == {"RAW_CMD_PT", "RAW_CMD_UNIT", "RAW_CMD"}

\* The entries of a padded unit_tags argument that name a unit slot.
SelectedIndices(s, x) ==
    SelectSeq(x.unit_tags, LAMBDA i : i # s.max_unit_count)

\* The action maps of the raw round trip, as the claim delimits them.
RoundTripCall(s, units, x) ==
    LET sel == SelectedIndices(s, x)
    IN /\ x.function \in 0 .. Min(s.num_action_types, NumRawFunctions) - 1
       /\ IsGeneral(x.function)
       /\ Ascending(sel)
       /\ \A i \in 1 .. Len(sel) :
             sel[i] \in 0 .. Min(Len(units), s.max_unit_count) - 1
       /\ x.unit_tags = MakeFunctionCall(s, x.function, 0, 0, sel, 0, 0).unit_tags
       /\ TypeOf(x) \in {"NO_OP", "RAW_MOVE_CAMERA"} => sel = <<>>
       /\ IF TypeOf(x) = "RAW_CMD_UNIT"
          THEN x.target_unit_tag \in 0 .. Len(units) - 1
          ELSE x.target_unit_tag = 0
       /\ IF TypeOf(x) \in {"RAW_MOVE_CAMERA", "RAW_CMD_PT"}
          THEN x.world \in 0 .. Resolution(s) * Resolution(s) - 1
          ELSE x.world = 0
       /\ IF TypeOf(x) \in CommandTypes THEN x.queued \in {0, 1}
          ELSE x.queued = 0

\* A call within the action spec that commands something: a target below
\* max_unit_count, and a selection for a function that commands units.
Addressed(s, x) ==
    /\ TypeOf(x) = "RAW_CMD_UNIT" => x.target_unit_tag < s.max_unit_count
    /\ TypeOf(x) \in CommandTypes \cup {"RAW_AUTOCAST"}
         => SelectedIndices(s, x) # <<>>

\* C1: with action repeat disabled, for every map size and resolution,
\* every action map of the raw round trip decodes, after encoding, to
\* itself.  Stated for the calls that are within the action spec and select
\* at least one unit for a function that commands units.
C1_RoundTripAsStated ==
    (/\ call.op = "Decode"
     /\ ~settings_.action_repeat
     /\ RoundTripCall(settings_, current_observation_.units, call.action)
     /\ Addressed(settings_, call.action))
    => call.decoded = call.action

\* The grid row that world y = 0.5, the floor Decode puts under a position,
\* falls in.
ClampRow(s) ==
    LET r == Resolution(s)
    IN TruncDiv(r * (s.map_size.y * Den(r) - r), MaxDim(s) * Den(r))

\* The centre of cell `world` lies at world y >= 0.5, or in the row of 0.5.
AboveClamp(s, world) ==
    \/ AgentCoordsToWorldCoords(s, world).y >= Resolution(s)
    \/ TruncDiv(world, Resolution(s)) = ClampRow(s)

\* The extent of the round trip: it holds for the calls above whose world
\* cell the floor under y leaves in its row.
C1_RoundTripAboveClamp ==
    (/\ call.op = "Decode"
     /\ ~settings_.action_repeat
     /\ RoundTripCall(settings_, current_observation_.units, call.action)
     /\ Addressed(settings_, call.action)
     /\ TypeOf(call.action) \in {"RAW_MOVE_CAMERA", "RAW_CMD_PT"}
          => AboveClamp(settings_, call.action.world))
    => call.decoded = call.action

\* A command-to-point call for a cell of the bottom row has been encoded and
\* decoded, and came back with another world index.
C1_Witness ==
    /\ call.op = "Decode"
    /\ ~settings_.action_repeat
    /\ RoundTripCall(settings_, current_observation_.units, call.action)
    /\ Addressed(settings_, call.action)
    /\ TypeOf(call.action) = "RAW_CMD_PT"
    /\ ~AboveClamp(settings_, call.action.world)
    /\ call.decoded.function = call.action.function
    /\ call.decoded.unit_tags = call.action.unit_tags
    /\ call.decoded.world # call.action.world

\* The quick-command calls of the repeat round trip: a function the encoder
\* exposes, a non-empty selection of addressable observed units, a repeat
\* value the action spec allows.
RepeatCall(s, units, x) ==
    LET sel == SelectedIndices(s, x)
    IN /\ s.action_repeat
       /\ x.function \in 0 .. Min(s.num_action_types, NumRawFunctions) - 1
       /\ TypeOf(x) = "RAW_CMD"
       /\ sel # <<>>
       /\ Ascending(sel)
       /\ \A i \in 1 .. Len(sel) :
             sel[i] \in 0 .. Min(Len(units), s.max_unit_count) - 1
       /\ x.unit_tags = MakeFunctionCall(s, x.function, 0, 0, sel, 0, 0).unit_tags
       /\ x.world = 0 /\ x.target_unit_tag = 0 /\ x.queued \in {0, 1}
       /\ x.repeat \in 0 .. kMaxActionRepeat

\* Encode emitted repeat + 1 commands, all with one ability id.
RepeatedCommands(x, actions) ==
    /\ Len(actions) = x.repeat + 1
    /\ \A i \in 1 .. Len(actions) :
          /\ actions[i].kind = "unit_command"
          /\ actions[i].ability_id = actions[1].ability_id

----------------------------------------------------------------------------
(* Masking of off-screen enemies *)

\* The arguments the matrix of the current state was built from.
BuiltFrom ==
    RawUnitsArgs(settings_, current_observation_, last_unit_tags_,
                 last_target_unit_tag_, raw_camera_, call.is_raw)

\* The positions of the core units that have a row.
CoreRowsOf(p) == 1 .. Min(p.max_unit_count, Len(p.units))

\* C9: with offscreen-enemy masking enabled, the row of every enemy unit
\* that is outside the camera window and Cloaked, whatever its display type,
\* is 0 in every column except the tag column 29.
C9_CloakedFullyRedacted ==
    call.op = "RawUnitsFullVec" =>
      \A i \in CoreRowsOf(BuiltFrom) :
        LET u == current_observation_.units[i]
        IN (/\ settings_.mask_offscreen_enemies
            /\ u.alliance = Enemy
            /\ ~UnitOnScreen(BuiltFrom, u)
            /\ u.cloak = Cloaked)
           => \A j \in Columns(BuiltFrom) \ {29} : call.tensor.m[i][j] = 0

\* A cloaked enemy with display type Visible, off screen, has been encoded
\* under masking.
C9_Witness ==
    /\ call.op = "RawUnitsFullVec"
    /\ settings_.mask_offscreen_enemies
    /\ raw_camera_.exists
    /\ LET u == current_observation_.units[1]
       IN /\ u.alliance = Enemy /\ u.cloak = Cloaked /\ u.display_type = Visible
          /\ ~UnitOnScreen(BuiltFrom, u)
          /\ call.tensor.m[1][0] = kMaskedUnitTypeId
          /\ \A j \in Columns(BuiltFrom) \ {0, 29} : call.tensor.m[1][j] = 0

\* The cloaked rows the code does redact in full: those of units whose
\* display type is not Visible.
C9_CloakedNotVisibleRedacted ==
    call.op = "RawUnitsFullVec" =>
      \A i \in CoreRowsOf(BuiltFrom) :
        LET u == current_observation_.units[i]
        IN (/\ settings_.mask_offscreen_enemies
            /\ u.alliance = Enemy
            /\ ~UnitOnScreen(BuiltFrom, u)
            /\ u.cloak = Cloaked
            /\ u.display_type # Visible)
           => /\ \A j \in Columns(BuiltFrom) \ {29} : call.tensor.m[i][j] = 0
              /\ call.tensor.m[i][29] = IF call.is_raw THEN u.tag ELSE 0

\* The columns a partial redaction must leave as they are.
KeptColumns == {1, 10, 11, 12, 13, 15, 17, 29}

\* C10: with offscreen-enemy masking enabled, the row of every enemy unit
\* outside the camera window that is not cloaked and has display type
\* Visible has 254 in column 0, 0 in every column of the masked subset, and
\* in columns 1, 10, 11, 12, 13, 15, 17 and 29 the values of the unmasked
\* encoding of that unit.
C10_VisiblePartlyRedacted ==
    call.op = "RawUnitsFullVec" =>
      \A i \in CoreRowsOf(BuiltFrom) :
        LET u == current_observation_.units[i]
            unmasked == UnitRow([BuiltFrom EXCEPT !.mask_offscreen_enemies = FALSE], u)
        IN (/\ settings_.mask_offscreen_enemies
            /\ u.alliance = Enemy
            /\ ~UnitOnScreen(BuiltFrom, u)
            /\ u.cloak # Cloaked
            /\ u.display_type = Visible)
           => /\ call.tensor.m[i][0] = kMaskedUnitTypeId
              /\ \A j \in kUnitFeaturesToMask \cap Columns(BuiltFrom) :
                    call.tensor.m[i][j] = 0
              /\ \A j \in KeptColumns : call.tensor.m[i][j] = unmasked[j]

\* A visible, uncloaked enemy outside the virtual camera's window has been
\* encoded under masking, with its position and tag in the row.
C10_Witness ==
    /\ call.op = "RawUnitsFullVec"
    /\ settings_.mask_offscreen_enemies
    /\ raw_camera_.exists
    /\ call.is_raw
    /\ LET u == current_observation_.units[1]
       IN /\ u.alliance = Enemy /\ u.cloak = NotCloaked /\ u.display_type = Visible
          /\ ~UnitOnScreen(BuiltFrom, u)
          /\ call.tensor.m[1][0] = kMaskedUnitTypeId
          /\ call.tensor.m[1][2] = 0
          /\ call.tensor.m[1][12] = 3
          /\ call.tensor.m[1][29] = u.tag


----------------------------------------------------------------------------
(* Episode state of the converter *)

\* The first command of a request is of this kind.
FirstIs(actions, kind) == Len(actions) > 0 /\ actions[1].kind = kind

\* The last call was a ConvertAction of a raw converter that returned OK.
RawActionSucceeded ==
    call.op = "ConvertAction" /\ settings_.mode = "raw" /\ call.status = "ok"

\* C3 (as stated): a ConvertAction or ConvertObservation that returns a
\* failure status leaves the last selected unit tags, the last target tag and
\* the virtual camera's existence and position as they were before the call.
C3_StateUntouchedOnError ==
    [][(call'.op \in {"ConvertAction", "ConvertObservation"}
        /\ call'.status = "error")
       => /\ last_unit_tags_' = last_unit_tags_
          /\ last_target_unit_tag_' = last_target_unit_tag_
          /\ raw_camera_'.exists = raw_camera_.exists
          /\ raw_camera_'.pos_x_ = raw_camera_.pos_x_
          /\ raw_camera_'.pos_y_ = raw_camera_.pos_y_]_vars

\* A ConvertAction failed for its missing delay after the raw converter had
\* encoded a unit command.
C3_Witness ==
    /\ call.op = "ConvertAction" /\ call.status = "error"
    /\ call.converted_or.status = "ok"
    /\ FirstIs(call.converted_or.actions, "unit_command")

\* The selection and target a unit command leaves behind.
FollowsCommand(command) ==
    /\ last_unit_tags_ = Range(command.unit_tags)
    /\ last_target_unit_tag_ =
           IF command.has_target_unit_tag THEN command.target_unit_tag ELSE -1

\* C4 (as stated): after a successful raw ConvertAction whose first command
\* is a unit command, the last selection is that command's unit tags and the
\* last target its target tag (-1 without one); after any other successful
\* ConvertAction the last selection is empty and the last target is -1.
C4_UpdateRuleAsStated ==
    RawActionSucceeded
    => IF FirstIs(call.request_action, "unit_command")
         THEN FollowsCommand(call.request_action[1])
       ELSE last_unit_tags_ = {} /\ last_target_unit_tag_ = -1

\* C4: after a successful raw ConvertAction whose first command is a unit
\* command, the last selection is that command's unit tags and the last
\* target its target tag (-1 without one); any other successful
\* ConvertAction leaves the last selection and the last target as they were.
C4_UpdateRule ==
    [][(call'.op = "ConvertAction" /\ settings_.mode = "raw"
        /\ call'.status = "ok")
       => IF FirstIs(call'.request_action, "unit_command")
            THEN /\ last_unit_tags_' = Range(call'.request_action[1].unit_tags)
                 /\ last_target_unit_tag_' =
                        IF call'.request_action[1].has_target_unit_tag
                          THEN call'.request_action[1].target_unit_tag
                        ELSE -1
          ELSE /\ last_unit_tags_' = last_unit_tags_
               /\ last_target_unit_tag_' = last_target_unit_tag_]_vars

\* A camera move succeeded while a selection and a target were remembered.
C4_Witness ==
    /\ RawActionSucceeded
    /\ FirstIs(call.request_action, "camera_move")
    /\ last_unit_tags_ # {}
    /\ last_target_unit_tag_ # -1


----------------------------------------------------------------------------
(* Bookkeeping columns and the virtual camera across calls *)

RECURSIVE PassengerTags(_, _)
\* The tags of the passengers of the units from position i on, in order.
PassengerTags(units, i) ==
    IF i > Len(units) THEN <<>>
    ELSE [k \in 1 .. Len(units[i].passengers) |-> units[i].passengers[k].tag]
         \o PassengerTags(units, i + 1)

\* For each raw_units row that stands for a unit (an observed unit or, with
\* cargo rows on, a passenger), in row order: the unit's tag and whether
\* masking redacted the row.
UnitsOfRows(s, obs, camera) ==
    LET p == RawUnitsArgs(s, obs, {}, -1, camera, TRUE)
        core == [i \in 1 .. Len(obs.units) |->
                    [tag |-> obs.units[i].tag, passenger |-> FALSE,
                     redacted |-> MaskEnemy(p, obs.units[i])
                                  /\ (obs.units[i].cloak = Cloaked
                                      \/ obs.units[i].display_type = Visible)]]
        cargo == IF s.add_cargo_to_units
                   THEN [k \in 1 .. Len(PassengerTags(obs.units, 1)) |->
                            [tag |-> PassengerTags(obs.units, 1)[k],
                             passenger |-> TRUE, redacted |-> FALSE]]
                 ELSE <<>>
        all == SubSeq(core, 1, Min(s.max_unit_count, Len(core))) \o cargo
    IN SubSeq(all, 1, Min(s.max_unit_count, Len(all)))

\* The two bookkeeping columns of a row show the command's selection and target.
Bookkept(row, F, tag, command) ==
    /\ row[F] = Bool(tag \in Range(command.unit_tags))
    /\ row[F + 1] = Bool(command.has_target_unit_tag
                         /\ tag = command.target_unit_tag)

\* An observation is converted directly after a successful raw ConvertAction
\* whose request starts with a unit command.
ObservedAfterCommand ==
    /\ RawActionSucceeded
    /\ FirstIs(call.request_action, "unit_command")
    /\ call'.op = "ConvertObservation"
    /\ call'.status = "ok"

\* C5 (as stated): in the observation converted directly after a successful
\* ConvertAction that yielded a unit command with unit tags S and target t,
\* every raw_units row of a unit that masking did not redact has column F
\* equal to 1 exactly if the unit's tag is in S and column F + 1 equal to 1
\* exactly if the unit's tag is t.
C5_BookkeepingFollowsAction ==
    [][ObservedAfterCommand
       => LET rows == UnitsOfRows(settings_, current_observation_', raw_camera_')
          IN \A i \in 1 .. Len(rows) :
                ~rows[i].redacted
                => Bookkept(call'.output.raw_units[i],
                            settings_.num_unit_features, rows[i].tag,
                            call.request_action[1])]_vars

\* C5: in the observation converted directly after a successful ConvertAction
\* that yielded a unit command with unit tags S and target t, every raw_units
\* row of an observed unit that masking did not redact has column F equal to
\* 1 exactly if the unit's tag is in S and column F + 1 equal to 1 exactly if
\* the unit's tag is t; the rows of passengers are left out.
C5_ObservedUnitsFollowAction ==
    [][ObservedAfterCommand
       => LET rows == UnitsOfRows(settings_, current_observation_', raw_camera_')
          IN \A i \in 1 .. Len(rows) :
                ~rows[i].redacted /\ ~rows[i].passenger
                => Bookkept(call'.output.raw_units[i],
                            settings_.num_unit_features, rows[i].tag,
                            call.request_action[1])]_vars

\* An observation was converted while a selection and a target were
\* remembered, and a row of it is flagged as selected and another as target.
C5_Witness ==
    /\ call.op = "ConvertObservation" /\ call.status = "ok"
    /\ last_unit_tags_ # {} /\ last_target_unit_tag_ # -1
    /\ \E i, k \in DOMAIN call.output.raw_units :
          /\ call.output.raw_units[i][settings_.num_unit_features] = 1
          /\ call.output.raw_units[k][settings_.num_unit_features + 1] = 1

\* The settings size the virtual camera so that it can be seeded.
VirtualCameraUsable(s) ==
    s.use_virtual_camera /\ SeedCamera(s, NoCamera, EmptyObservation).status = "ok"

CentreIs(camera, point) == camera.pos_x_ = point.x /\ camera.pos_y_ = point.y

\* C6 (as stated): with a usable virtual camera the first ConvertObservation
\* seeds the camera centre from the observation's true camera position;
\* from then on the camera changes only to the centre of a camera-move
\* command that ConvertAction returns, and no ConvertObservation changes it.
C6_NeverResyncs ==
    [][/\ (VirtualCameraUsable(settings_) /\ ~raw_camera_.exists
           /\ call'.op = "ConvertObservation")
          => raw_camera_'.exists
       /\ raw_camera_' # raw_camera_
          => IF ~raw_camera_.exists
               THEN /\ call'.op = "ConvertObservation"
                    /\ CentreIs(raw_camera_', current_observation_'.camera)
             ELSE /\ call'.op = "ConvertAction"
                  /\ call'.status = "ok"
                  /\ FirstIs(call'.request_action, "camera_move")
                  /\ CentreIs(raw_camera_',
                              call'.request_action[1].center_world_space)]_vars

\* C6 (as the code has it): the same with the camera-move command that
\* RawConverter::ConvertAction encoded, whether or not
\* Converter::ConvertAction went on to return it.
C6_FollowsEncodedMove ==
    [][/\ (VirtualCameraUsable(settings_) /\ ~raw_camera_.exists
           /\ call'.op = "ConvertObservation")
          => raw_camera_'.exists
       /\ raw_camera_' # raw_camera_
          => IF ~raw_camera_.exists
               THEN /\ call'.op = "ConvertObservation"
                    /\ CentreIs(raw_camera_', current_observation_'.camera)
             ELSE /\ call'.op = "ConvertAction"
                  /\ call'.converted_or.status = "ok"
                  /\ FirstIs(call'.converted_or.actions, "camera_move")
                  /\ CentreIs(raw_camera_',
                              call'.converted_or.actions[1].center_world_space)]_vars

\* An observation with another true camera position was converted and the
\* virtual camera stayed where it was.
C6_Witness ==
    /\ call.op = "ConvertObservation" /\ call.status = "ok"
    /\ raw_camera_.exists
    /\ ~CentreIs(raw_camera_, current_observation_.camera)

----------------------------------------------------------------------------
(* Malformed action maps *)

\* The size of the mode's function table.
TableSize(s) == IF s.mode = "raw" THEN NumRawFunctions ELSE NumVisualFunctions

InTable(s, action) ==
    Has(action, "function") /\ action.function >= 0
    /\ action.function < TableSize(s)

\* The entries the selected function requires of the action map.
Required(s, action) ==
    IF ~InTable(s, action) THEN {"function"}
    ELSE IF s.mode = "raw" THEN EntriesRead(s, action.function)
    ELSE {"function"} \cup ArgNames(GetAction(action.function).type)

\* C7 (as stated): in raw and in visual mode, a ConvertAction whose action
\* map lacks an entry the selected function requires returns a failure
\* status with no command; the process does not end.
C7_MissingArgumentFails ==
    (call.op = "ConvertAction"
     /\ ~(Required(settings_, call.action) \subseteq DOMAIN call.action))
    => call.status = "error" /\ call.request_action = <<>>

\* A visual ConvertAction was called without an argument of its handler.
C7_Witness ==
    /\ call.op = "ConvertAction" /\ settings_.mode = "visual"
    /\ InTable(settings_, call.action)
    /\ ~(Required(settings_, call.action) \subseteq DOMAIN call.action)

\* C8 (as stated): in raw and in visual mode, a ConvertAction whose function
\* index is negative or not below the size of the function table returns a
\* failure status.
C8_OutOfRangeFails ==
    (call.op = "ConvertAction" /\ Has(call.action, "function")
     /\ ~InTable(settings_, call.action))
    => call.status = "error"

\* A raw ConvertAction was called with a function index outside the table.
C8_Witness ==
    /\ call.op = "ConvertAction" /\ settings_.mode = "raw"
    /\ Has(call.action, "function") /\ ~InTable(settings_, call.action)

----------------------------------------------------------------------------
(* What Encode emits *)

\* Encode returned a request for a well-formed call of a function of one of
\* these types.
Encoded(types) ==
    /\ call.op = "Encode"
    /\ call.result.status = "ok"
    /\ TypeOf(call.action) \in types

RECURSIVE FirstSentinel(_, _, _)
FirstSentinel(unit_tags, max_unit_count, i) ==
    IF i > Len(unit_tags) THEN i
    ELSE IF unit_tags[i] = max_unit_count THEN i
    ELSE FirstSentinel(unit_tags, max_unit_count, i + 1)

\* The unit_tags entries that stand before the first end marker and are
\* below max_unit_count.
BeforeSentinel(s, unit_tags) ==
    SelectSeq(SubSeq(unit_tags, 1, FirstSentinel(unit_tags, s.max_unit_count, 1) - 1),
              LAMBDA index : index < s.max_unit_count)

\* The unit tags of the first emitted command.
EmittedTags == call.result.actions[1].unit_tags

\* Encode emitted a unit command or an autocast toggle.
EmittedSelection ==
    /\ Encoded(CommandTypes \cup {"RAW_AUTOCAST"})
    /\ call.result.actions # <<>>

\* C19 (as stated): the unit tags of the emitted command are those of the
\* unit_tags entries that are below max_unit_count and stand before the
\* first occurrence of the end marker max_unit_count; an entry at or beyond
\* max_unit_count and an entry after the end marker contribute none.
C19_SentinelEndsSelection ==
    EmittedSelection
    => LET kept == BeforeSentinel(settings_, call.action.unit_tags)
       IN EmittedTags = [i \in 1 .. Len(kept) |->
                            FindOriginalTag(kept[i], current_observation_.units)]

\* A selection with an entry behind the end marker was encoded.
C19_Witness ==
    /\ EmittedSelection
    /\ \E i, k \in DOMAIN call.action.unit_tags :
          /\ i < k
          /\ call.action.unit_tags[i] = settings_.max_unit_count
          /\ call.action.unit_tags[k] < settings_.max_unit_count
          /\ call.action.unit_tags[k] < Len(current_observation_.units)

\* C20 (as stated): Encode never emits a unit command or an autocast toggle
\* whose list of unit tags is empty.
C20_NoCommandWithoutSelection ==
    call.op = "Encode"
    => \A i \in DOMAIN call.result.actions :
          call.result.actions[i].kind \in {"unit_command", "toggle_autocast"}
          => call.result.actions[i].unit_tags # <<>>

\* A command was encoded whose unit_tags argument holds end markers alone.
C20_Witness ==
    /\ Encoded(CommandTypes \cup {"RAW_AUTOCAST"})
    /\ \A i \in DOMAIN call.action.unit_tags :
          call.action.unit_tags[i] = settings_.max_unit_count

----------------------------------------------------------------------------
(* Which action of a request Decode translates *)

IsRawAction(a) ==
    a.kind \in {"unit_command", "camera_move", "toggle_autocast", "raw_empty"}

\* The unit tags an action names.
TagsOf(a) ==
    IF a.kind \in {"unit_command", "toggle_autocast"} THEN a.unit_tags ELSE <<>>

HasTarget(a) == a.kind = "unit_command" /\ a.has_target_unit_tag

\* The function the action's ability and kind stand for.
FunctionOf(a) ==
    CASE a.kind = "unit_command" ->
           FindFunction(a.ability_id,
                        IF a.has_target_unit_tag THEN "RAW_CMD_UNIT"
                        ELSE IF a.has_target_world_space_pos THEN "RAW_CMD_PT"
                        ELSE "RAW_CMD")
      [] a.kind = "camera_move" -> MoveCameraFunction(0)
      [] a.kind = "toggle_autocast" -> FindFunction(a.ability_id, "RAW_AUTOCAST")
      [] OTHER -> 0

\* The filters of Decode: the target, if any, is an observed unit; the
\* function is below num_action_types; unless the action is a camera move,
\* one of its unit tags is that of an observed unit at an index below
\* max_unit_count, and so is its target.
PassesFilters(s, units, a) ==
    /\ HasTarget(a) => \E i \in DOMAIN units : units[i].tag = a.target_unit_tag
    /\ FunctionOf(a) < s.num_action_types
    /\ a.kind # "camera_move"
       => /\ \E i \in 1 .. Min(Len(units), s.max_unit_count) :
                units[i].tag \in Range(TagsOf(a))
          /\ HasTarget(a) => TargetIndex(units, a.target_unit_tag, 0) < s.max_unit_count

\* The position of the first raw action from i on that passes the filters;
\* 0 when there is none.
RECURSIVE FirstSurvivor(_, _, _, _)
FirstSurvivor(s, units, actions, i) ==
    IF i > Len(actions) THEN 0
    ELSE IF IsRawAction(actions[i]) /\ PassesFilters(s, units, actions[i]) THEN i
    ELSE FirstSurvivor(s, units, actions, i + 1)

\* What Decode makes of the request that holds this action alone, the no-op
\* map for no action.
Translation(s, units, actions, k) ==
    IF k = 0 THEN MakeFunctionCall(s, 0, 0, 0, <<>>, 0, 0)
    ELSE Decode(s, units, <<actions[k]>>)

\* A decoded map with its repeat count left out of account.
RepeatAside(x) == IF Has(x, "repeat") THEN [x EXCEPT !.repeat = 0] ELSE x

\* C17 (as stated): Decode returns the translation of the first raw action
\* of the request that passes all filters, whatever actions stand before or
\* behind it, and the no-op map when no action passes.
C17_FirstSurvivorDecoded ==
    call.op = "Decode"
    => /\ call.decoded # DecodeAborted
       /\ call.decoded =
            Translation(settings_, current_observation_.units, call.actions,
                        FirstSurvivor(settings_, current_observation_.units,
                                      call.actions, 1))

\* C17 (as the code has it): when Decode returns, the function and the
\* arguments other than repeat are those of the first raw action that passes
\* all filters.
C17_FirstSurvivorButRepeat ==
    (call.op = "Decode" /\ call.decoded # DecodeAborted)
    => RepeatAside(call.decoded) =
         RepeatAside(Translation(settings_, current_observation_.units,
                                 call.actions,
                                 FirstSurvivor(settings_, current_observation_.units,
                                               call.actions, 1)))

\* A request was decoded whose first action was skipped for its unobserved
\* target and whose second action was returned.
C17_Witness ==
    /\ call.op = "Decode"
    /\ Len(call.actions) = 2
    /\ HasTarget(call.actions[1])
    /\ ~PassesFilters(settings_, current_observation_.units, call.actions[1])
    /\ FirstSurvivor(settings_, current_observation_.units, call.actions, 1) = 2
    /\ call.decoded # DecodeAborted
    /\ call.decoded.function # 0

----------------------------------------------------------------------------
(* The visual codec: hidden functions, the round trip and availability *)

AbilityTypes == {"cmd_screen", "cmd_minimap", "cmd_quick", "autocast"}

\* C15: the function visual Decode returns for an ability-driven command
\* (on a screen point, on a minimap point, quick, autocast toggle) is below
\* num_functions.
C15_NoHiddenFunction ==
    (call.op = "Decode" /\ call.decoded # DecodeAborted)
        => (GetAction(call.decoded.function).type \in AbilityTypes
               => call.decoded.function < settings_.num_action_types)

\* An autocast toggle alone in a request was decoded to a function that is
\* not below num_functions.
C15_Witness ==
    /\ call.op = "Decode"
    /\ Len(call.actions) = 1
    /\ call.actions[1].kind = "ui.toggle_autocast"
    /\ call.decoded # DecodeAborted
    /\ call.decoded.function >= settings_.num_action_types

\* The kinds of action visual Decode recognises.
RecognisedKinds ==
    {"feature_layer.camera_move", "feature_layer.unit_selection_point",
     "feature_layer.unit_selection_rect", "ui.control_group", "ui.multi_panel",
     "ui.select_idle_worker", "ui.select_army", "ui.select_warp_gates",
     "ui.select_larva", "ui.cargo_panel", "ui.production_panel",
     "feature_layer.unit_command", "ui.toggle_autocast"}

\* The command shape of an ability-driven action.
ShapeOf(action) ==
    IF action.kind = "ui.toggle_autocast" THEN "autocast"
    ELSE IF Has(action, "target_screen_coord") THEN "cmd_screen"
    ELSE IF Has(action, "target_minimap_coord") THEN "cmd_minimap"
    ELSE "cmd_quick"

\* The action is not ability-driven, or its ability id is that of a general
\* function of the action's shape.
HasGeneralAbility(action) ==
    action.kind \in {"feature_layer.unit_command", "ui.toggle_autocast"}
        => \E i \in DOMAIN VisualFunctions :
              /\ VisualFunctions[i].ability_id = action.ability_id
              /\ VisualFunctions[i].general_id = 0
              /\ VisualFunctions[i].type = ShapeOf(action)

\* C14: for a request of one action of a recognised kind, with a general
\* ability id when the action is ability-driven, encoding what Decode
\* returned with the decoded function's handler gives the request's action.
C14_DecodeEncodeIdentity ==
    (/\ call.op = "Encode"
     /\ Len(call.actions) = 1
     /\ call.actions[1].kind \in RecognisedKinds
     /\ HasGeneralAbility(call.actions[1]))
        => call.encoded = Ok(<<call.actions[1]>>)

\* A rectangle selection alone in a request was decoded and the decoded
\* call handed to the handler of select_rect.
C14_Witness ==
    /\ call.op = "Encode"
    /\ Len(call.actions) = 1
    /\ call.actions[1].kind = "feature_layer.unit_selection_rect"
    /\ call.decoded.function = FunctionTypeId("select_rect")
    /\ call.encoded = Aborted

\* The function is one the ability resolves to: a function of the ability
\* or of the general ability one of its functions names.
ResolvesTo(ability_id, f) ==
    \/ f.ability_id = ability_id
    \/ \E i \in DOMAIN VisualFunctions :
          /\ VisualFunctions[i].ability_id = ability_id
          /\ VisualFunctions[i].general_id = f.ability_id

\* C13: when AvailableActions completes, every available ability of the
\* observation has a function below num_action_types whose entry is 1.
C13_AvailableAbilityEnabled ==
    (call.op = "AvailableActions" /\ call.available_actions # DecodeAborted)
        => \A i \in DOMAIN call.obs.abilities :
              \E id \in 0 .. settings_.num_action_types - 1 :
                 /\ id < NumVisualFunctions
                 /\ GetAction(id).type \in AbilityTypes
                 /\ ResolvesTo(call.obs.abilities[i].ability_id, GetAction(id))
                 /\ call.available_actions[id + 1] = 1

\* AvailableActions completed on an observation whose one available
\* ability has its only function at num_action_types or beyond.
C13_Witness ==
    /\ call.op = "AvailableActions"
    /\ call.available_actions # DecodeAborted
    /\ Len(call.obs.abilities) = 1
    /\ \A id \in 0 .. NumVisualFunctions - 1 :
          ResolvesTo(call.obs.abilities[1].ability_id, GetAction(id))
              => id >= settings_.num_action_types

----------------------------------------------------------------------------
(* Validation of the settings, and the observation against its spec *)

PositiveSquare(size) == size.x > 0 /\ size.y > 0 /\ size.x = size.y

\* The settings and the game are of a kind MakeConverter is to reject.
Rejected(s) ==
    \/ s.non_observers # 2
    \/ s.mode \notin {"raw", "visual"}
    \/ s.num_action_types < 539
    \/ s.num_unit_types < 217
    \/ s.num_upgrade_types < 86
    \/ s.max_num_upgrades <= 0
    \/ /\ s.mode = "visual" \/ s.minimap_features # <<>>
       /\ ~PositiveSquare(s.minimap)
    \/ s.mode = "visual" /\ ~PositiveSquare(s.screen)
    \/ s.mode = "raw" /\ (s.num_unit_features < 39 \/ s.max_selection_size < 16)

C11_ObservationMatchesSpec ==
    /\ (call.op = "ConvertObservation" /\ call.status = "ok")
           => (/\ DOMAIN call.shapes = DOMAIN ObservationSpec(settings_)
               /\ \A k \in DOMAIN call.shapes :
                     call.shapes[k] = ObservationSpec(settings_)[k])
    /\ call.op = "ObservationSpec" => call.spec = ObservationSpec(settings_)

\* A supervised visual converter converted an observation, and the output
\* lacks a key of its spec.
C11_Witness ==
    /\ call.op = "ConvertObservation"
    /\ call.status = "ok"
    /\ settings_.mode = "visual"
    /\ settings_.supervised
    /\ DOMAIN ObservationSpec(settings_) \ DOMAIN call.shapes # {}

----------------------------------------------------------------------------
(* The uint8 lookups: canonicalization and the round trip *)

\* C16: converting a listed unit id to its uint8 index and back returns the
\* id, and so does converting a listed upgrade id; a redundant unit id yields
\* the index of its canonical substitute.
C16_CanonicalRoundTrip ==
    /\ (call.op = "ConvertBack" /\ call.list = "units"
          /\ call.data \in Range(kUnitsList))
         => ~call.aborted /\ call.value = call.data
    /\ (call.op = "ConvertBack" /\ call.list = "upgrades"
          /\ call.data \in Range(kUpgradesList))
         => ~call.aborted /\ call.value = call.data
    /\ (call.op = "PySc2ToUint8" /\ call.list = "units"
          /\ call.data \in DOMAIN RedundantUnits)
         => /\ ~call.aborted
            /\ call.value \in DOMAIN kUnitsList
            /\ kUnitsList[call.value] = RedundantUnits[call.data]

\* A listed unit id that the redundancy pre-map replaces has come back as
\* its substitute.
C16_Witness ==
    /\ call.op = "ConvertBack"
    /\ call.list = "units"
    /\ call.data \in Range(kUnitsList) \cap DOMAIN RedundantUnits
    /\ ~call.aborted
    /\ call.value = RedundantUnits[call.data]
    /\ call.value # call.data

----------------------------------------------------------------------------
(* Indices and literal tags in Encode *)

\* The unit tag a value stands for: the tag of the observed unit at that
\* position, or the value itself past the observed units.
TagMeant(v) ==
    IF v < Len(current_observation_.units)
      THEN current_observation_.units[v + 1].tag
    ELSE v

\* The unit_tags entries other than the end marker, in their order.
NotEndMarker(s, unit_tags) ==
    SelectSeq(unit_tags, LAMBDA index : index # s.max_unit_count)

----------------------------------------------------------------------------
(* What Decode returns: the repeat count, its CHECKs and the no-op *)

\* The position of the action Decode translates; 0 when there is none.
ReturnedAction ==
    FirstSurvivor(settings_, current_observation_.units, call.actions, 1)

\* The number of unit commands of the request with the ability id of a.
SameAbility(actions, a) ==
    Cardinality({i \in DOMAIN actions :
                    /\ actions[i].kind = "unit_command"
                    /\ actions[i].ability_id = a.ability_id})

InsideMap(s, p) ==
    /\ 0 <= p.x
    /\ p.x < s.map_size.x * Den(Resolution(s))
    /\ 0 < p.y
    /\ p.y <= s.map_size.y * Den(Resolution(s))

\* C24 (as stated): Decode never aborts; for every observation, request and
\* target or camera position, on or outside the map edge included, it
\* returns a map.
C24_DecodeNeverAborts ==
    call.op = "Decode" => call.decoded # DecodeAborted

\* A request whose first action is a camera move to a point on the right
\* edge of the map or outside the map was decoded.
C24_Witness ==
    /\ call.op = "Decode"
    /\ call.actions # <<>>
    /\ call.actions[1].kind = "camera_move"
    /\ ~InsideMap(settings_, call.actions[1].center_world_space)
    /\ call.decoded = DecodeAborted

\* The canonical no-op map of an encoder.
CanonicalNoOp(s) ==
    LET zeros == [i \in 1 .. s.max_selection_size |-> 0]
    IN IF s.action_repeat
         THEN [function |-> 0, world |-> 0, queued |-> 0, unit_tags |-> zeros,
               target_unit_tag |-> 0, repeat |-> 0]
       ELSE [function |-> 0, world |-> 0, queued |-> 0, unit_tags |-> zeros,
             target_unit_tag |-> 0]

\* The request holds a unit command or an autocast toggle whose ability id
\* is that of no function.
HoldsUnlistedAbility(actions) ==
    \E i \in DOMAIN actions :
       /\ actions[i].kind \in {"unit_command", "toggle_autocast"}
       /\ \A f \in 0 .. NumRawFunctions - 1 :
             RawFunction(f).ability_id # actions[i].ability_id

\* C25 (as stated): whenever Decode returns function 0 the returned map is
\* the canonical no-op (world 0, queued 0, target_unit_tag 0, unit_tags all
\* zeros of length max_selection_size, repeat 0 when present), also when the
\* request holds a command whose ability id matches no function.
C25_FunctionZeroIsNoOp ==
    (call.op = "Decode" /\ call.decoded # DecodeAborted
       /\ call.decoded.function = 0)
    => call.decoded = CanonicalNoOp(settings_)

\* A request with a command of an unlisted ability was decoded to function
\* 0 with a selection that is not all zeros.
C25_Witness ==
    /\ call.op = "Decode"
    /\ HoldsUnlistedAbility(call.actions)
    /\ call.decoded # DecodeAborted
    /\ call.decoded.function = 0
    /\ \E i \in DOMAIN call.decoded.unit_tags : call.decoded.unit_tags[i] # 0

----------------------------------------------------------------------------
(* The rows of the unit matrix: the type column, cargo rows and bookkeeping *)

\* The rows appended for passengers.
CargoRowsOf(p) ==
    IF p.add_cargo_to_units
      THEN {i \in 1 .. p.max_unit_count :
              /\ i > Min(p.max_unit_count, Len(p.units))
              /\ i <= Min(p.max_unit_count, Len(p.units))
                        + Len(PassengerTags(p.units, 1))}
    ELSE {}

\* The rows that stand for neither a core unit nor a passenger: those of
\* area effects and the padding.
OtherRowsOf(p) == (1 .. p.max_unit_count) \ (CoreRowsOf(p) \cup CargoRowsOf(p))

\* The row has a display type and is not a masked row.
ShownUnitRow(row) == row[10] # 0 /\ row[0] # kMaskedUnitTypeId

\* C23 (as stated): for every feature count, RawUnitsToUint8 replaces column
\* 0 of a row by its canonical unit index exactly when the row has a nonzero
\* display type and is not masked, or is the row of a cargo passenger; the
\* rows of area effects and masked rows keep column 0.
C23_TypeColumnRemapped ==
    call.op = "RawUnitsToUint8" =>
      /\ \A i \in CoreRowsOf(BuiltFrom) \cup OtherRowsOf(BuiltFrom) :
            call.uint8.m[i][0] =
              IF ShownUnitRow(call.tensor.m[i])
                THEN PySc2ToUint8(call.tensor.m[i][0])
              ELSE call.tensor.m[i][0]
      /\ \A i \in CargoRowsOf(BuiltFrom) :
            call.uint8.m[i][0] = PySc2ToUint8(call.tensor.m[i][0])

\* A matrix with the row of a passenger was converted at a feature count
\* without an in-cargo column, and the type of the passenger is not its
\* canonical index.
C23_Witness ==
    /\ call.op = "RawUnitsToUint8"
    /\ ~call.uint8.aborted
    /\ settings_.num_unit_features <= 40
    /\ \E i \in CargoRowsOf(BuiltFrom) :
          /\ call.uint8.m[i][0] = call.tensor.m[i][0]
          /\ call.uint8.m[i][0] # PySc2ToUint8(call.tensor.m[i][0])

\* The core unit is an uncloaked enemy of display type Visible outside the
\* window, and masking is on: its row is partly redacted.
PartlyRedacted(p, u) ==
    /\ p.mask_offscreen_enemies
    /\ u.alliance = Enemy
    /\ ~UnitOnScreen(p, u)
    /\ u.cloak # Cloaked
    /\ u.display_type = Visible

\* C26 (as stated): for every feature count F, the partial redaction of a
\* visible enemy off screen leaves the bookkeeping columns alone: column F
\* is 1 exactly if the unit was selected by the last action and column
\* F + 1 is 1 exactly if it was the last action's target.
C26_MaskingKeepsBookkeeping ==
    call.op = "RawUnitsFullVec" =>
      \A i \in CoreRowsOf(BuiltFrom) :
        LET u == current_observation_.units[i]
            F == settings_.num_unit_features
        IN PartlyRedacted(BuiltFrom, u)
           => /\ call.tensor.m[i][F] = Bool(u.tag \in last_unit_tags_)
              /\ call.tensor.m[i][F + 1] = Bool(u.tag = last_target_unit_tag_)

\* The row of an enemy that was selected and targeted by the last action was
\* partly redacted.
C26_Witness ==
    /\ call.op = "RawUnitsFullVec"
    /\ LET u == current_observation_.units[1]
           F == settings_.num_unit_features
       IN /\ PartlyRedacted(BuiltFrom, u)
          /\ u.tag \in last_unit_tags_
          /\ u.tag = last_target_unit_tag_
          /\ call.tensor.m[1][0] = kMaskedUnitTypeId
          /\ call.tensor.m[1][F] = 0
          /\ call.tensor.m[1][F + 1] = 0

\* C27 (as stated): for every feature count F, the row appended for a cargo
\* passenger has 0 in both bookkeeping columns F and F + 1, and the in-cargo
\* flag is written only when column 40 is a feature column (F > 40).
C27_CargoRowsKeepBookkeeping ==
    call.op = "RawUnitsFullVec" =>
      \A i \in CargoRowsOf(BuiltFrom) :
        LET F == settings_.num_unit_features
        IN /\ call.tensor.m[i][F] = 0
           /\ call.tensor.m[i][F + 1] = 0
           /\ F <= 40 => call.tensor.m[i][40] = 0

\* The row of a passenger was built at a feature count whose column 40 is a
\* bookkeeping column, and it has 1 there.
C27_Witness ==
    /\ call.op = "RawUnitsFullVec"
    /\ settings_.num_unit_features \in {39, 40}
    /\ \E i \in CargoRowsOf(BuiltFrom) :
          /\ call.tensor.m[i][0] = 9
          /\ call.tensor.m[i][40] = 1

----------------------------------------------------------------------------
(* Rendering the virtual camera *)

\* C28 (as stated): for every camera with strictly positive half-extents,
\* every centre and every accepted map size and square resolution,
\* RenderCamera passes its left < right and bottom < top checks and returns
\* a resolution.y by resolution.x tensor of zeros and ones.
C28_RenderNeverAborts ==
    call.op = "RenderCamera"
    => /\ ~call.aborted
       /\ DOMAIN call.plane = 0 .. Resolution(settings_) - 1
       /\ \A y \in DOMAIN call.plane :
             /\ DOMAIN call.plane[y] = 0 .. Resolution(settings_) - 1
             /\ \A x \in DOMAIN call.plane[y] : call.plane[y][x] \in {0, 1}

\* A camera whose positive half-extents are narrower than half a pixel was
\* rendered with its centre inside a pixel of the map.
C28_Witness ==
    /\ call.op = "RenderCamera"
    /\ RawCameraValid(raw_camera_.left_, raw_camera_.right_,
                      raw_camera_.top_, raw_camera_.bottom_)
    /\ raw_camera_.left_ = 1 /\ raw_camera_.right_ = 1
    /\ raw_camera_.pos_x_ = Den(Resolution(settings_))
                              + Den(Resolution(settings_)) \div 2
    /\ raw_camera_.pos_y_ = raw_camera_.pos_x_
    /\ call.aborted

----------------------------------------------------------------------------
(* Which observation actions are resolved against *)

\* C29: in raw mode every ConvertObservation call, failed ones included,
\* caches the observation it was passed and no other call changes the
\* cache; ConvertAction returns what Encode makes of the action map, and
\* DecodeAction what Decode makes of the request, on the units of the
\* cached observation (of the empty one before the first
\* ConvertObservation); and DecodeAction leaves the cached observation, the
\* last selection, the last target and the camera as they were.
C29_ResolvedAgainstLatest ==
    [][/\ call'.op = "ConvertObservation" =>
              current_observation_' = call'.observation
       /\ call'.op # "ConvertObservation" =>
              current_observation_' = current_observation_
       /\ (call'.op = "ConvertAction" /\ settings_.mode = "raw") =>
              call'.converted_or =
                  Encode(settings_, current_observation_.units, call'.action)
       /\ call'.op = "DecodeAction" =>
              /\ call'.decoded =
                     Decode(settings_, current_observation_.units, call'.action)
              /\ UNCHANGED <<current_observation_, last_unit_tags_,
                             last_target_unit_tag_, raw_camera_>>]_vars

\* A supervised converter was last given an observation without
\* force_action_delay, which ConvertObservation answers with an error, and
\* DecodeAction then found the request's units in that observation.
C29_Witness ==
    /\ call.op = "DecodeAction"
    /\ settings_.supervised
    /\ ~current_observation_.has_force_action_delay
    /\ current_observation_.units # <<>>
    /\ call.status = "ok"
    /\ call.decoded.function # 0

----------------------------------------------------------------------------
(* The observed race of the opponent *)

\* The race of the first enemy unit of an observation that holds one.
FirstEnemyRace(observation) ==
    UnitToRaceMap[observation.units[FirstEnemy(observation.units, 1)].unit_type]

\* C30 as stated: away_race_observed is Random until the first
\* ConvertObservation whose unit list holds an enemy unit, that call sets it
\* to the race of the first enemy unit of its observation, and no later
\* call changes it.
C30_LatchesOnFirstEnemy ==
    /\ away_race_observed_ = Random
    /\ [][(call'.op = "ConvertObservation" /\ call'.status # "abort") =>
               away_race_observed_' =
                   IF \/ away_race_observed_ # Random
                      \/ FirstEnemy(call'.observation.units, 1) = 0
                     THEN away_race_observed_
                   ELSE FirstEnemyRace(call'.observation)]_vars

\* C30: away_race_observed is Random until the first ConvertObservation
\* whose unit list holds an enemy unit and whose sub-converter returns
\* without error; that call sets it to the race of the first enemy unit of
\* its observation, also when the call then fails on a force_action_delay
\* of zero, and no later call changes it.
C30_LatchesOnFirstConvertedEnemy ==
    /\ away_race_observed_ = Random
    /\ [][(call'.op = "ConvertObservation" /\ call'.status # "abort") =>
               away_race_observed_' =
                   IF \/ away_race_observed_ # Random
                      \/ call'.result # "ok"
                      \/ FirstEnemy(call'.observation.units, 1) = 0
                     THEN away_race_observed_
                   ELSE FirstEnemyRace(call'.observation)]_vars

\* The race stayed Terran through an observation whose first enemy unit is
\* Zerg.
C30_Witness ==
    /\ call.op = "ConvertObservation"
    /\ call.status = "ok"
    /\ away_race_observed_ = Terran
    /\ current_observation_.units # <<>>
    /\ current_observation_.units[1].alliance = Enemy
    /\ ~UnitTypeToRaceFails(current_observation_.units[1].unit_type)
    /\ UnitTypeToRace(current_observation_.units[1].unit_type) = Zerg

=============================================================================
